---- MODULE Spec2Model ----
(***************************************************************************)
(* A model of stos (subtitles to anki decks): the subtitle timeline        *)
(* builder, the consolidation and filter passes, the video sampler and     *)
(* the export-job scheduler of main().  Each subsystem has its own         *)
(* specification over the shared variables; the variables of the other     *)
(* subsystems stay at their idle values.                                   *)
(***************************************************************************)
EXTENDS Integers, Sequences, FiniteSets, TLC

(***************************************************************************)
(* Bounds of the model.                                                    *)
(***************************************************************************)
\* i64::MAX on a narrower integer (14 bits): Timestamp and Duration are i64
\* in the source, the model keeps the two's-complement behaviour.
I64_MAX == 8191
\* u32::MAX on a narrower integer (12 bits): subtitle display times are u32.
U32_MAX == 4095
\* Packets of the subtitle file read by one run of the builder.
MaxPackets == 3

I64_MIN == 0 - I64_MAX - 1
I64_MODULUS == 2 * (I64_MAX + 1)

(***************************************************************************)
(* Option<T>: None is the empty tuple, Some(v) the one-element tuple.      *)
(***************************************************************************)
None == <<>>
Some(v) == <<v>>
IsSome(o) == o # None
Unwrap(o) == o[1]

Min2(a, b) == IF a <= b THEN a ELSE b
Max2(a, b) == IF a >= b THEN a ELSE b

RECURSIVE SeqFilterMap(_, _)
\* the elements of s for which keep[..] is true, in order
SeqFilterMap(s, bad) ==
    IF s = <<>> THEN <<>>
    ELSE IF Head(s) \in bad THEN SeqFilterMap(Tail(s), bad)
    ELSE <<Head(s)>> \o SeqFilterMap(Tail(s), bad)

RECURSIVE Flatten(_)
Flatten(ss) == IF ss = <<>> THEN <<>> ELSE Head(ss) \o Flatten(Tail(ss))

(***************************************************************************)
(* Time domain (src/src/time.rs).                                          *)
(***************************************************************************)
\* the value an i64 holds after a wrapping operation
WrapI64(x) == ((x - I64_MIN) % I64_MODULUS) + I64_MIN
InI64(x) == I64_MIN <= x /\ x <= I64_MAX

\* Timestamp::TIMEBASE = Rational(1, 1000), as <<numerator, denominator>>
TimestampTimebase == <<1, 1000>>

\* libav's Rescale::rescale (av_rescale_q, rounding to nearest, halves away
\* from zero): a * bq / cq; INT64_MIN when the result is not representable.
RescaleNonNeg(a, b, c) ==
    LET r == (a * b + (c \div 2)) \div c
    IN  IF r > I64_MAX THEN I64_MIN ELSE r

Rescale(a, bq, cq) ==
    LET b == bq[1] * cq[2]
        c == cq[1] * bq[2]
    IN  IF a < 0
        THEN LET r == RescaleNonNeg(0 - Max2(a, 0 - I64_MAX), b, c)
             IN  IF r = I64_MIN THEN I64_MIN ELSE 0 - r
        ELSE RescaleNonNeg(a, b, c)

\* Timestamp::from_libav_ts: Err for an unrepresentable or negative rescale
\* result, Ok(Timestamp(ts)) otherwise.
from_libav_ts(ts, time_base) ==
    LET r == Rescale(ts, time_base, TimestampTimebase)
    IN  IF r = I64_MIN THEN [ok |-> FALSE, err |-> "Unrepresentable timestamp"]
        ELSE IF r < 0 THEN [ok |-> FALSE, err |-> "Negative timestamp"]
        ELSE [ok |-> TRUE, ts |-> r]

\* impl Add<Duration> for Timestamp: Self(self.0 + d.as_millis()), a plain
\* i64 addition: it panics on overflow in a build with overflow checks
\* (debug) and wraps in a build without them (release).
TimestampAdd(ts, d, build) ==
    IF InI64(ts + d) THEN [panic |-> FALSE, ts |-> ts + d]
    ELSE IF build = "debug" THEN [panic |-> TRUE]
    ELSE [panic |-> FALSE, ts |-> WrapI64(ts + d)]

\* the two inputs kept as they are given
TimespanNewAsGiven(start, end) == [start |-> start, end |-> end]

\* Timespan::new: the two inputs ordered
TimespanNew(start, end) == [start |-> Min2(start, end), end |-> Max2(end, start)]

(***************************************************************************)
(* State.                                                                  *)
(***************************************************************************)
VARIABLES
    \* -- subtitle timeline builder (src/src/subtitle.rs) --
    subs,       \* Vec<av::Subtitle> of read_subtitles_from_stream
    bStatus,    \* "reading" | "done" (Ok) | "error" (Err returned) | "panic"
    nread,      \* packets taken from ictx.packets() so far
    build,      \* "debug" (overflow checks) or "release" (wrapping) build
    timebase,   \* stream.time_base() of the subtitle stream
    out,        \* the Subtitles read_subtitles_from_file yields
    last,       \* what the last packet did: [kind, start, resolved, rects]
    \* -- merge of recurring subtitles (--merge, --max-dist) --
    maxDistArg, \* the value of --max-dist, None when the option is absent
    mIn,        \* the subtitles handed to the merge
    mOut,       \* the merged list built so far
    mOpen,      \* dialogue -> index in mOut of its most recent entry
    mPos,       \* entries of mIn consumed; -1 while the merge is not run
    \* -- coalescing of overlapping subtitles (src/src/main.rs 622-641) --
    coalesce,   \* args.coalesce
    cIn,        \* the list get_subtitles returned for the file
    cOut,       \* new_list, as list.coalesce() builds it
    cPos,       \* entries of cIn consumed; -1 while not run
    cList,      \* the list collected into `subs` for the file, None before
    \* -- filter pipeline (--start, --end, -b, -w, --ignore-styled) --
    fArgs,      \* the options: [start, end, blacklist, whitelist, styledArg]
    fIn,        \* the subtitles handed to the pipeline
    fCur,       \* the subtitles that are left after the stages run so far
    fStage,     \* number of stages run, 0..4; -1 while not run
    \* -- video sampling (src/src/image.rs, extract_images_from_stream) --
    sPoints,    \* the sample points: their timestamps, in the order given
    sTimeBase,  \* time_base of the video stream
    sNext,      \* points taken from the peekable iterator so far
    sRead,      \* packets taken from ictx.packets() so far
    sSent,      \* packets of the video stream sent to the decoder
    sFrames,    \* pts of the frames receive_frame has returned, in order
    sEmitted,   \* images sent on the channel: [point, frame] indexes
    sPc,        \* where extract_images_from_stream is
    \* -- main: image channel and export jobs (src/src/main.rs 646-797) --
    jArgs,      \* gen_audio, gen_image, print_command, no_media, no_deck
    jFiles,     \* number of media files (one subtitle list for each)
    jSubs,      \* subtitles decoded from the files: 0 for none, 1 for some
    jPc,        \* where main is
    jProd,      \* video-sampling jobs: how many are pending, running, ok, err
    jSenders,   \* live Sender handles of the image channel
    jSent,      \* images sent on the channel so far
    jQueue,     \* images in the channel
    jCons,      \* consumer threads: how many are in recv, writing, ok, err
    jWritten,   \* images saved to disk
    jCmd,       \* ffmpeg commands: pending, running, ok, nonzero, nospawn
    jExit,      \* exit code of the process, None while it runs
    \* -- style parser (src/src/ass.rs, impl FromStr for AssText) --
    aIn,        \* the string handed to from_str, a sequence of characters
    aPos,       \* characters consumed by the loop; -1 while not run
    aSt,        \* the locals of from_str: escaped, brackets, dialogue, styled
    aRes,       \* what from_str returned, None while it runs
    \* -- time arithmetic (src/src/time.rs, src/src/util.rs) --
    tOp,        \* the function called, "idle" before the call
    tArgs,      \* its arguments
    tRes,       \* what it returned
    \* -- audio spans (src/src/audio.rs, generate_audio_command) --
    uSubs,      \* the subtitles of the file: [start, end]
    uPadding,   \* padding: <<start padding, end padding>>
    uJoin,      \* args.join_audio
    uPos,       \* subtitles consumed by the loop; -1 while not run
    uSpans,     \* the spans of the command so far: [start, end, name]
    uTags       \* the output name every consumed subtitle is tagged with

bVars == <<subs, bStatus, nread, build, timebase, out, last>>
mVars == <<maxDistArg, mIn, mOut, mOpen, mPos>>
cVars == <<coalesce, cIn, cOut, cPos, cList>>
fVars == <<fArgs, fIn, fCur, fStage>>
sVars == <<sPoints, sTimeBase, sNext, sRead, sSent, sFrames, sEmitted, sPc>>
jVars == <<jArgs, jFiles, jSubs, jPc, jProd, jSenders, jSent, jQueue, jCons, jWritten, jCmd, jExit>>
aVars == <<aIn, aPos, aSt, aRes>>
tVars == <<tOp, tArgs, tRes>>
uVars == <<uSubs, uPadding, uJoin, uPos, uSpans, uTags>>
vars == <<bVars, mVars, cVars, fVars, sVars, jVars, aVars, tVars, uVars>>

\* A part of the program that a specification does not exercise rests in
\* these states.
BuilderIdle ==
    /\ subs = <<>>
    /\ bStatus = "idle"
    /\ nread = 0
    /\ build = "release"
    /\ timebase = <<1, 1000>>
    /\ out = <<>>
    /\ last = [kind |-> "init", start |-> None, resolved |-> FALSE, rects |-> <<>>]

MergeIdle ==
    /\ maxDistArg = None
    /\ mIn = <<>>
    /\ mOut = <<>>
    /\ mOpen = <<>>
    /\ mPos = -1

CoalesceIdle ==
    /\ coalesce = FALSE
    /\ cIn = <<>>
    /\ cOut = <<>>
    /\ cPos = -1
    /\ cList = None

FilterIdle ==
    /\ fArgs = <<>>
    /\ fIn = <<>>
    /\ fCur = <<>>
    /\ fStage = -1

SamplingIdle ==
    /\ sPoints = <<>>
    /\ sTimeBase = <<1, 1000>>
    /\ sNext = 0
    /\ sRead = 0
    /\ sSent = 0
    /\ sFrames = <<>>
    /\ sEmitted = <<>>
    /\ sPc = "idle"

NoProducers == [pending |-> 0, running |-> 0, sending |-> 0, ok |-> 0, err |-> 0]
NoConsumers == [recv |-> 0, writing |-> 0, ok |-> 0, err |-> 0]
NoCommands == [pending |-> 0, running |-> 0, ok |-> 0, nonzero |-> 0, nospawn |-> 0]

MainIdle ==
    /\ jArgs = <<>>
    /\ jFiles = 0
    /\ jSubs = 0
    /\ jPc = "idle"
    /\ jProd = NoProducers
    /\ jSenders = 0
    /\ jSent = 0
    /\ jQueue = 0
    /\ jCons = NoConsumers
    /\ jWritten = 0
    /\ jCmd = NoCommands
    /\ jExit = None

\* the locals of AssText::from_str before the loop
AssStart == [escaped |-> FALSE, brackets |-> 0, dialogue |-> <<>>, styled |-> FALSE]

AssIdle ==
    /\ aIn = <<>>
    /\ aPos = -1
    /\ aSt = AssStart
    /\ aRes = None

TimeIdle ==
    /\ tOp = "idle"
    /\ tArgs = <<>>
    /\ tRes = <<>>

AudioIdle ==
    /\ uSubs = <<>>
    /\ uPadding = <<0, 0>>
    /\ uJoin = FALSE
    /\ uPos = -1
    /\ uSpans = <<>>
    /\ uTags = <<>>

\* What a specification of one part leaves alone, and where it leaves it.
BuilderRest == <<mVars, cVars, fVars, sVars, jVars, aVars, tVars, uVars>>
MergeRest == <<bVars, cVars, fVars, sVars, jVars, aVars, tVars, uVars>>
CoalesceRest == <<bVars, mVars, fVars, sVars, jVars, aVars, tVars, uVars>>
FilterRest == <<bVars, mVars, cVars, sVars, jVars, aVars, tVars, uVars>>
SamplingRest == <<bVars, mVars, cVars, fVars, jVars, aVars, tVars, uVars>>
MainRest == <<bVars, mVars, cVars, fVars, sVars, aVars, tVars, uVars>>
AssRest == <<bVars, mVars, cVars, fVars, sVars, jVars, tVars, uVars>>
TimeRest == <<bVars, mVars, cVars, fVars, sVars, jVars, aVars, uVars>>
AudioRest == <<bVars, mVars, cVars, fVars, sVars, jVars, aVars, tVars>>
BuilderRestIdle ==
    MergeIdle /\ CoalesceIdle /\ FilterIdle /\ SamplingIdle /\ MainIdle /\ AssIdle /\ TimeIdle /\ AudioIdle
MergeRestIdle ==
    BuilderIdle /\ CoalesceIdle /\ FilterIdle /\ SamplingIdle /\ MainIdle /\ AssIdle /\ TimeIdle /\ AudioIdle
CoalesceRestIdle ==
    BuilderIdle /\ MergeIdle /\ FilterIdle /\ SamplingIdle /\ MainIdle /\ AssIdle /\ TimeIdle /\ AudioIdle
FilterRestIdle ==
    BuilderIdle /\ MergeIdle /\ CoalesceIdle /\ SamplingIdle /\ MainIdle /\ AssIdle /\ TimeIdle /\ AudioIdle
SamplingRestIdle ==
    BuilderIdle /\ MergeIdle /\ CoalesceIdle /\ FilterIdle /\ MainIdle /\ AssIdle /\ TimeIdle /\ AudioIdle
MainRestIdle ==
    BuilderIdle /\ MergeIdle /\ CoalesceIdle /\ FilterIdle /\ SamplingIdle /\ AssIdle /\ TimeIdle /\ AudioIdle

ProgramIdle ==
    BuilderIdle /\ MergeIdle /\ CoalesceIdle /\ FilterIdle /\ SamplingIdle /\ MainIdle
AssRestIdle == ProgramIdle /\ TimeIdle /\ AudioIdle
TimeRestIdle == ProgramIdle /\ AssIdle /\ AudioIdle
AudioRestIdle == ProgramIdle /\ AssIdle /\ TimeIdle

(***************************************************************************)
(* Subtitle timeline builder (src/src/subtitle.rs, mod av).                *)
(***************************************************************************)
\* time bases of the subtitle stream: milliseconds, and 2 ms ticks
TimeBases == {<<1, 1000>>, <<1, 500>>}

\* AVSubtitle::TIMEBASE
AVSubtitleTimebase == <<1, 1000>>

\* (pts, dts) of a packet
PacketStamps ==
    {<<None, None>>, <<None, Some(1)>>, <<Some(0 - 1), None>>, <<Some(0), None>>,
     <<Some(1), Some(0)>>, <<Some(I64_MAX), None>>}

\* <<start_display_time, end_display_time>> of a decoded subtitle (both
\* u32) with packet.duration(): no duration at all, a display interval, an
\* end_display_time of u32::MAX with a packet duration, a packet duration
DurationHints ==
    {<< <<0, 0>>, 0 >>, << <<0, 1>>, 0 >>, << <<0, U32_MAX>>, 1 >>, << <<0, 0>>, 1 >>}

\* The rects of a decoded subtitle.  "bad_ass" is an ass rect whose dialogue
\* record does not parse, "bad_bitmap" a bitmap with more than 256 colors:
\* Rect::try_from returns Err for both.
FailingRects == {"bad_ass", "bad_bitmap"}
RawRectLists ==
    {<<>>, <<"bad_ass">>, <<"bitmap", "text">>, <<"bad_bitmap", "text">>}

OtherStreamPacket ==
    [stream |-> "other", decode |-> "none", pts |-> None, dts |-> None,
     duration |-> 0, display |-> <<0, 0>>, rects |-> <<>>]

\* packets of the subtitle stream the decoder fails on, or gives no subtitle for
UndecodedPackets ==
    {[stream |-> "sub", decode |-> d, pts |-> None, dts |-> None,
      duration |-> 0, display |-> <<0, 0>>, rects |-> <<>>] : d \in {"err", "none"}}

DecodedPackets ==
    {[stream |-> "sub", decode |-> "some", pts |-> st[1], dts |-> st[2],
      duration |-> h[2], display |-> h[1], rects |-> rs] :
        st \in PacketStamps, h \in DurationHints, rs \in RawRectLists}

Packets == {OtherStreamPacket} \cup UndecodedPackets \cup DecodedPackets

\* Option::or
OptionOr(a, b) == IF IsSome(a) THEN a ELSE b

\* AVSubtitle::decode, the Ok(Some(..)) arm: the packet's pts (or dts)
\* rescaled to AVSubtitle::TIMEBASE, and the packet's duration
AVSubtitleDecode(p, tb) ==
    LET ts == OptionOr(p.pts, p.dts)
    IN  [display |-> p.display, rects |-> p.rects,
         start |-> IF IsSome(ts) THEN Some(Rescale(Unwrap(ts), tb, AVSubtitleTimebase))
                   ELSE None,
         duration |-> p.duration]

\* the duration chosen in TryFrom<AVSubtitle>: the display interval when it
\* is non-empty and its end is not u32::MAX, else a positive packet duration
AVSubtitleDuration(av) ==
    IF av.display[2] > av.display[1] /\ av.display[2] # U32_MAX
    THEN Some(av.display[2] - av.display[1])
    ELSE IF av.duration > 0 THEN Some(av.duration)
    ELSE None

\* ConvertRects as collect::<Result<Vec<_>>>() would do it: one failing
\* rect loses the rects of the whole event
ConvertRectsAllOrNothing(rects) ==
    IF \E i \in 1..Len(rects) : rects[i] \in FailingRects THEN <<>> ELSE rects

\* the rects that convert, in order (filter_map over Rect::try_from)
ConvertRects(rects) == SeqFilterMap(rects, FailingRects)

\* impl TryFrom<AVSubtitle> for Subtitle
\* kind "err": Err returned; "panic": the addition start + duration
\* overflowed in a build with overflow checks; "ok": Subtitle{start,end,rects}
TryFromAVSubtitle(av, bld) ==
    IF av.start = None THEN [kind |-> "err"]
    ELSE
      LET st == from_libav_ts(Unwrap(av.start), AVSubtitleTimebase)
          du == AVSubtitleDuration(av)
      IN  IF ~st.ok THEN [kind |-> "err"]
          ELSE IF du = None
          THEN [kind |-> "ok",
                sub |-> [start |-> st.ts, end |-> None, rects |-> ConvertRects(av.rects)]]
          ELSE
            LET e == TimestampAdd(st.ts, Unwrap(du), bld)
            IN  IF e.panic THEN [kind |-> "panic"]
                ELSE [kind |-> "ok",
                      sub |-> [start |-> st.ts, end |-> Some(e.ts),
                               rects |-> ConvertRects(av.rects)]]

\* ResolvePrev that leaves the last entry as it is
ResolvePrevNever(list, sub) == list

\* ResolvePrev without the end.is_none() test: the last entry's end is
\* overwritten by every event
ResolvePrevAlways(list, sub) ==
    IF list # <<>>
    THEN [list EXCEPT ![Len(list)].end = Some(sub.start)]
    ELSE list

\* the Ok(sub) arm of read_subtitles_from_stream, first half: the last entry
\* gets the new start as its end when its end is still unknown
ResolvePrev(list, sub) ==
    IF list # <<>> /\ list[Len(list)].end = None
    THEN [list EXCEPT ![Len(list)].end = Some(sub.start)]
    ELSE list

\* the subtitle is pushed whatever its rects
PushSubAlways(list, sub) == Append(list, sub)

\* second half: the subtitle is pushed unless it has no rects
PushSub(list, sub) == IF sub.rects # <<>> THEN Append(list, sub) ELSE list

\* Subtitle::convert with end.unwrap_or(start): an open entry gets an end
SubtitleConvertInventEnd(sub) ==
    [i \in 1..Len(sub.rects) |->
        [timespan |-> TimespanNew(sub.start,
                                  IF sub.end = None THEN sub.start ELSE Unwrap(sub.end)),
         diag |-> sub.rects[i]]]

\* Subtitle::convert: one Subtitle per rect; none when the end is unknown
SubtitleConvert(sub) ==
    IF sub.end = None THEN <<>>
    ELSE [i \in 1..Len(sub.rects) |->
            [timespan |-> TimespanNew(sub.start, Unwrap(sub.end)),
             diag |-> sub.rects[i]]]

\* read_subtitles_from_file: subs.into_iter().flat_map(Subtitle::convert)
ConvertAll(list) == Flatten([i \in 1..Len(list) |-> SubtitleConvert(list[i])])

\* What one iteration of `for (stream, packet) in ictx.packets()` does to
\* the list: [subs, status, last].  last is what happened: its kind, the
\* start of the converted subtitle, whether the last entry's end was
\* resolved by it, and the rects the decoder gave for it.
Outcome(list, status, kind, start, resolved, rects) ==
    [subs |-> list, status |-> status,
     last |-> [kind |-> kind, start |-> start, resolved |-> resolved, rects |-> rects]]

\* try_into(av_sub)? in place of the match: a subtitle that does not
\* convert ends the read
ProcessPacketAbortOnErr(list, p, tb, bld) ==
    IF p.stream # "sub" THEN Outcome(list, "reading", "skip", None, FALSE, <<>>)
    ELSE IF p.decode = "err"
    THEN \* AVSubtitle::decode(..)? returns the error: the Vec is dropped
         \* with the frame and nothing is yielded for the file
         Outcome(list, "error", "decode_err", None, FALSE, <<>>)
    ELSE IF p.decode = "none" THEN Outcome(list, "reading", "no_sub", None, FALSE, <<>>)
    ELSE
      LET r == TryFromAVSubtitle(AVSubtitleDecode(p, tb), bld)
      IN  IF r.kind = "err" THEN Outcome(list, "error", "convert_err", None, FALSE, <<>>)
          ELSE IF r.kind = "panic" THEN Outcome(list, "panic", "panic", None, FALSE, <<>>)
          ELSE Outcome(PushSub(ResolvePrev(list, r.sub), r.sub), "reading",
                       IF r.sub.rects = <<>> THEN "no_rects" ELSE "pushed",
                       Some(r.sub.start),
                       list # <<>> /\ list[Len(list)].end = None,
                       p.rects)

ProcessPacket(list, p, tb, bld) ==
    IF p.stream # "sub" THEN Outcome(list, "reading", "skip", None, FALSE, <<>>)
    ELSE IF p.decode = "err"
    THEN \* AVSubtitle::decode(..)? returns the error: the Vec is dropped
         \* with the frame and nothing is yielded for the file
         Outcome(list, "error", "decode_err", None, FALSE, <<>>)
    ELSE IF p.decode = "none" THEN Outcome(list, "reading", "no_sub", None, FALSE, <<>>)
    ELSE
      LET r == TryFromAVSubtitle(AVSubtitleDecode(p, tb), bld)
      IN  IF r.kind = "err" THEN Outcome(list, "reading", "convert_err", None, FALSE, <<>>)
          ELSE IF r.kind = "panic" THEN Outcome(list, "panic", "panic", None, FALSE, <<>>)
          ELSE Outcome(PushSub(ResolvePrev(list, r.sub), r.sub), "reading",
                       IF r.sub.rects = <<>> THEN "no_rects" ELSE "pushed",
                       Some(r.sub.start),
                       list # <<>> /\ list[Len(list)].end = None,
                       p.rects)

NoLast == [kind |-> "init", start |-> None, resolved |-> FALSE, rects |-> <<>>]

BuilderInit ==
    /\ subs = <<>>
    /\ bStatus = "reading"
    /\ nread = 0
    /\ build \in {"debug", "release"}
    /\ timebase \in TimeBases
    /\ out = <<>>
    /\ last = NoLast
    /\ BuilderRestIdle

\* one iteration of the packet loop of read_subtitles_from_stream
ReadPacket(p) ==
    /\ bStatus = "reading"
    /\ nread < MaxPackets
    /\ nread' = nread + 1
    /\ LET r == ProcessPacket(subs, p, timebase, build)
       IN  /\ subs' = r.subs
           /\ bStatus' = r.status
           /\ last' = r.last
    /\ UNCHANGED <<build, timebase, out>>
    /\ UNCHANGED BuilderRest

\* the packet iterator is exhausted: Ok(subs), handed to flat_map(convert)
EndOfStream ==
    /\ bStatus = "reading"
    /\ bStatus' = "done"
    /\ out' = ConvertAll(subs)
    /\ UNCHANGED <<subs, nread, build, timebase, last>>
    /\ UNCHANGED BuilderRest

BuilderNext ==
    \/ \E p \in Packets : ReadPacket(p)
    \/ EndOfStream

SpecBuilder == BuilderInit /\ [][BuilderNext]_vars

(***************************************************************************)
(* Claims about the timeline builder.                                      *)
(***************************************************************************)
\* a packet was read in this step and converted to a Subtitle (Ok(sub))
ConvertedStep == nread' = nread + 1 /\ last'.kind \in {"pushed", "no_rects"}

\* C1: when an event with a valid start S is processed while the most
\* recently appended entry has an unresolved end, that entry's end becomes S;
\* an entry whose end is resolved is never changed by a later event.
C1_EndResolvedOnce ==
    [][/\ (ConvertedStep /\ subs # <<>> /\ subs[Len(subs)].end = None)
            => (Len(subs') >= Len(subs) /\ subs'[Len(subs)].end = last'.start)
       /\ \A i \in 1..Len(subs) :
            subs[i].end # None => (Len(subs') >= i /\ subs'[i] = subs[i])]_vars

\* an open entry was resolved by the start of the next event, and an entry
\* resolved earlier sits before it
C1_Witness ==
    /\ last.resolved
    /\ Len(subs) >= 2
    /\ subs[1].end # None
    /\ \E i \in 1..Len(subs) : subs[i].end = last.start /\ subs[i].start # Unwrap(last.start)

RECURSIVE SumSeq(_)
SumSeq(s) == IF s = <<>> THEN 0 ELSE Head(s) + SumSeq(Tail(s))

\* the entries of the list whose end is known
ResolvedEntries == {i \in 1..Len(subs) : subs[i].end # None}

\* C2: after the whole stream is consumed every emitted Subtitle has a
\* bounded timespan taken from an entry with a known end (one Subtitle per
\* payload item of such an entry), and an entry whose end is still unknown
\* yields nothing.
C2_OnlyBoundedEmitted ==
    bStatus = "done" =>
        /\ \A k \in 1..Len(out) :
              /\ InI64(out[k].timespan.start) /\ InI64(out[k].timespan.end)
              /\ out[k].timespan.start <= out[k].timespan.end
              /\ \E i \in ResolvedEntries :
                    /\ out[k].timespan.start = Min2(subs[i].start, Unwrap(subs[i].end))
                    /\ out[k].timespan.end = Max2(subs[i].start, Unwrap(subs[i].end))
                    /\ \E j \in 1..Len(subs[i].rects) : out[k].diag = subs[i].rects[j]
        /\ Len(out) = SumSeq([i \in 1..Len(subs) |->
                                IF subs[i].end # None THEN Len(subs[i].rects) ELSE 0])

\* the stream ended with an open two-payload entry after a resolved one
C2_Witness ==
    /\ bStatus = "done"
    /\ Len(subs) >= 2
    /\ subs[Len(subs)].end = None
    /\ Len(subs[Len(subs)].rects) = 2
    /\ Len(out) >= 1

\* C10 as stated: a failure while decoding or converting one event (a
\* decoder error included) drops only that event; the list is kept and the
\* read goes on.
C10_EveryFailureIsLocal ==
    [][(nread' = nread + 1 /\ last'.kind \in {"decode_err", "convert_err"})
          => (bStatus' = "reading" /\ subs' = subs)]_vars

\* C10 amended: an event that fails to convert (no timestamp, a start that
\* does not rescale) is dropped, the list is unchanged and the read goes on;
\* a rect that fails to convert (unsupported bitmap, malformed ass record)
\* is dropped from its event, whose other rects are kept, and the read goes
\* on; a decoder error ends the read with Err and nothing is yielded for
\* the file.
C10_ConversionFailureIsLocal ==
    [][(nread' = nread + 1) =>
          /\ last'.kind = "convert_err" => (bStatus' = "reading" /\ subs' = subs)
          /\ last'.kind = "decode_err" => (bStatus' = "error" /\ out' = <<>>)
          /\ last'.kind \in {"pushed", "no_rects"} =>
                LET kept == SeqFilterMap(last'.rects, FailingRects)
                IN  /\ bStatus' = "reading"
                    /\ IF kept = <<>> THEN Len(subs') = Len(subs)
                       ELSE /\ Len(subs') = Len(subs) + 1
                            /\ subs'[Len(subs')].rects = kept]_vars

\* an event with an unsupported bitmap and a text rect was pushed with the
\* text rect alone, after an earlier entry
C10_Witness ==
    /\ last.kind = "pushed"
    /\ last.rects = <<"bad_bitmap", "text">>
    /\ bStatus = "reading"
    /\ Len(subs) >= 2
    /\ subs[Len(subs)].rects = <<"text">>

\* C32: a raw event that is dropped because it has no timestamp or because
\* its start cannot be rescaled does not abort the read and leaves the
\* builder's list unchanged: nothing is appended, and the open entry's
\* unresolved end is not resolved by it.
C32_DroppedEventChangesNothing ==
    [][(nread' = nread + 1 /\ last'.kind = "convert_err") =>
          /\ bStatus' = "reading"
          /\ subs' = subs
          /\ last'.start = None
          /\ ~last'.resolved]_vars

\* an event without a usable start was dropped while the last entry of the
\* list was open, and the entry is still open
C32_Witness ==
    /\ last.kind = "convert_err"
    /\ bStatus = "reading"
    /\ subs # <<>>
    /\ subs[Len(subs)].end = None

\* C33: a raw event with a valid start but zero payload items (no rects,
\* or every rect failed to convert) is never appended, yet it resolves the
\* unresolved end of the previously appended entry to its own start.
C33_EmptyEventStillResolves ==
    [][(nread' = nread + 1 /\ last'.kind = "no_rects") =>
          /\ Len(subs') = Len(subs)
          /\ last'.start # None
          /\ \A i \in 1..(Len(subs) - 1) : subs'[i] = subs[i]
          /\ subs # <<>> =>
                LET prev == subs[Len(subs)]
                IN  IF prev.end = None
                    THEN subs'[Len(subs)] = [prev EXCEPT !.end = last'.start]
                    ELSE subs'[Len(subs)] = prev]_vars

\* an event whose only rect failed to convert closed the open entry before
\* it and was not appended
C33_Witness ==
    /\ last.kind = "no_rects"
    /\ last.rects = <<"bad_ass">>
    /\ last.resolved
    /\ Len(subs) = 1
    /\ subs[1].end = last.start

\* C34: for every raw event sequence, the list of entries the builder
\* produces is in non-decreasing start order.
C34_BuilderOutputSorted ==
    /\ \A i \in 1..(Len(subs) - 1) : subs[i].start <= subs[i + 1].start
    /\ \A k \in 1..(Len(out) - 1) : out[k].timespan.start <= out[k + 1].timespan.start

\* C36: after every processed event at most one entry of the builder's list
\* has an unresolved end, and if there is one it is the last entry.
C36_OnlyLastEntryOpen ==
    /\ Cardinality({i \in 1..Len(subs) : subs[i].end = None}) <= 1
    /\ \A i \in 1..(Len(subs) - 1) : subs[i].end # None

\* three entries were appended, the last one open
C36_Witness ==
    /\ bStatus = "reading"
    /\ Len(subs) = 3
    /\ subs[3].end = None
    /\ subs[1].end # None /\ subs[2].end # None

(***************************************************************************)
(* Dialogue (src/src/subtitle.rs): the payload of a Subtitle.  Text is a   *)
(* sequence of words, an image is named.                                   *)
(***************************************************************************)
DialogueText(text) == [kind |-> "Text", text |-> text]
DialogueAss(dialogue, styled) ==
    [kind |-> "Ass", text |-> [dialogue |-> dialogue, styled |-> styled]]
DialogueBitmap(image) == [kind |-> "Bitmap", image |-> image]

\* a Subtitle: timespan and dialogue
Sub(start, end, diag) == [timespan |-> TimespanNew(start, end), diag |-> diag]

\* longest list of subtitles handed to a pass over the timeline
MaxSubs == 3

\* all sequences over S of length 0..n
SeqsUpTo(S, n) == UNION {[1..k -> S] : k \in 0..n}

(***************************************************************************)
(* Merge of recurring subtitles: `--merge` with `--max-dist` (declared in  *)
(* src/src/args.rs; the pass itself is described in the specification).    *)
(***************************************************************************)
DEFAULT_MERGE_DIST == 250

\* a default one millisecond short
ArgsDefaultMergeDiffShort == DEFAULT_MERGE_DIST - 1

\* Args::default(): merge_diff: Duration::from_millis(DEFAULT_MERGE_DIST)
ArgsDefaultMergeDiff == DEFAULT_MERGE_DIST

\* Args::merge_diff(): the default unless --max-dist=MILLISECONDS was given
merge_diff(arg) == IF arg = None THEN ArgsDefaultMergeDiff ELSE Unwrap(arg)

MaxDistArgs == {None, Some(100)}
MergeSpans == {<<0, 100>>, <<150, 200>>, <<350, 400>>, <<351, 400>>, <<500, 600>>}
MergeDialogues == {DialogueText(<<"Hello">>), DialogueBitmap("img")}
MergeInputs ==
    SeqsUpTo({Sub(sp[1], sp[2], d) : sp \in MergeSpans, d \in MergeDialogues}, MaxSubs)

\* the step for one input entry with a strict comparison of the gap
MergeOneStrict(list, open, e, max_gap) ==
    IF /\ e.diag \in DOMAIN open
       /\ e.timespan.start - list[open[e.diag]].timespan.end < max_gap
    THEN [out |-> [list EXCEPT ![open[e.diag]].timespan.end = e.timespan.end],
          open |-> open]
    ELSE [out |-> Append(list, e),
          open |-> [d \in DOMAIN open \cup {e.diag} |->
                       IF d = e.diag THEN Len(list) + 1 ELSE open[d]]]

\* the step for one input entry that remembers only the first entry of a
\* dialogue
MergeOneKeepOldest(list, open, e, max_gap) ==
    IF /\ e.diag \in DOMAIN open
       /\ e.timespan.start - list[open[e.diag]].timespan.end <= max_gap
    THEN [out |-> [list EXCEPT ![open[e.diag]].timespan.end = e.timespan.end],
          open |-> open]
    ELSE [out |-> Append(list, e),
          open |-> [d \in DOMAIN open \cup {e.diag} |->
                       IF d \in DOMAIN open THEN open[d] ELSE Len(list) + 1]]

\* the step for one input entry: extend the open entry of its dialogue when
\* the gap is at most max_gap, otherwise append and remember the new entry
MergeOne(list, open, e, max_gap) ==
    IF /\ e.diag \in DOMAIN open
       /\ e.timespan.start - list[open[e.diag]].timespan.end <= max_gap
    THEN [out |-> [list EXCEPT ![open[e.diag]].timespan.end = e.timespan.end],
          open |-> open]
    ELSE [out |-> Append(list, e),
          open |-> [d \in DOMAIN open \cup {e.diag} |->
                       IF d = e.diag THEN Len(list) + 1 ELSE open[d]]]

MergeInit ==
    /\ maxDistArg \in MaxDistArgs
    /\ mIn \in MergeInputs
    /\ mOut = <<>>
    /\ mOpen = <<>>
    /\ mPos = 0
    /\ MergeRestIdle

MergeStep ==
    /\ mPos >= 0
    /\ mPos < Len(mIn)
    /\ LET r == MergeOne(mOut, mOpen, mIn[mPos + 1], merge_diff(maxDistArg))
       IN  /\ mOut' = r.out
           /\ mOpen' = r.open
    /\ mPos' = mPos + 1
    /\ UNCHANGED <<maxDistArg, mIn>>
    /\ UNCHANGED MergeRest

MergeNext == MergeStep

SpecMerge == MergeInit /\ [][MergeNext]_vars

\* read_subtitles of crates/extract, the body of `for subtitle in
\* subtitles`: a bitmap whose image is in the map moves the end of the
\* entry of that image to its own start; a bitmap seen for the first time
\* is pushed and put in the map; any other subtitle is pushed
DedupOne(list, images, e) ==
    IF e.diag.kind = "Bitmap"
    THEN IF e.diag \in DOMAIN images
         THEN [out |-> [list EXCEPT ![images[e.diag]].timespan.end = e.timespan.start],
               open |-> images]
         ELSE [out |-> Append(list, e),
               open |-> [d \in DOMAIN images \cup {e.diag} |->
                            IF d = e.diag THEN Len(list) + 1 ELSE images[d]]]
    ELSE [out |-> Append(list, e), open |-> images]

\* one subtitle of convert_subtitle goes through the loop
DedupStep ==
    /\ mPos >= 0
    /\ mPos < Len(mIn)
    /\ LET r == DedupOne(mOut, mOpen, mIn[mPos + 1])
       IN  /\ mOut' = r.out
           /\ mOpen' = r.open
    /\ mPos' = mPos + 1
    /\ UNCHANGED <<maxDistArg, mIn>>
    /\ UNCHANGED MergeRest

DedupNext == DedupStep

\* the de-duplication of bitmaps while reading
SpecDedup == MergeInit /\ [][DedupNext]_vars

(***************************************************************************)
(* Claims about the merge of recurring subtitles.                          *)
(***************************************************************************)
\* index of the last entry of list with dialogue d, 0 when there is none
LastWith(list, d) ==
    LET I == {i \in 1..Len(list) : list[i].diag = d}
    IN  IF I = {} THEN 0 ELSE CHOOSE i \in I : \A j \in I : j <= i

C3_ExampleIn ==
    LET d == DialogueText(<<"Hello">>)
    IN  <<Sub(0, 100, d), Sub(150, 200, d), Sub(500, 600, d)>>
C3_ExampleOut ==
    LET d == DialogueText(<<"Hello">>)
    IN  <<Sub(0, 200, d), Sub(500, 600, d)>>
C3_DefaultIn ==
    LET d == DialogueBitmap("img")
    IN  <<Sub(0, 100, d), Sub(350, 400, d)>>
C3_DefaultOut == <<Sub(0, 400, DialogueBitmap("img"))>>

OpenIsMostRecent ==
    /\ \A d \in DOMAIN mOpen : mOpen[d] = LastWith(mOut, d)
    /\ \A i \in 1..Len(mOut) : mOut[i].diag \in DOMAIN mOpen

C38_ConsolidationOnlyExtends ==
    \A i \in 1..mPos :
        \E k \in 1..Len(mOut) :
            /\ mOut[k].diag = mIn[i].diag
            /\ mOut[k].timespan.start <= mIn[i].timespan.start
            /\ mIn[i].timespan.end <= mOut[k].timespan.end

CoalesceSpans ==
    {<<100, 1000>>, <<100, 5100>>, <<500, 5000>>, <<1000, 5000>>, <<5000, 5100>>}
CoalesceRects == {<<"a">>, <<"b">>}
CoalesceSubs ==
    {[start |-> sp[1], end |-> sp[2], rects |-> r] :
        sp \in CoalesceSpans, r \in CoalesceRects}

IsSortedByStart(list) ==
    \A i \in 1..(Len(list) - 1) : list[i].start <= list[i + 1].start

\* the lists get_subtitles yields, in non-decreasing start order
CoalesceInputs == {l \in SeqsUpTo(CoalesceSubs, MaxSubs) : IsSortedByStart(l)}

\* two spans that touch at an endpoint do not overlap
OverlapsOpen(a, b) == ~(a.end <= b.start \/ b.end <= a.start)

\* two closed timespans overlap; touching endpoints count
Overlaps(a, b) == ~(a.end < b.start \/ b.end < a.start)

\* one entry of a pass that merges nothing
CoalesceOneAppendOnly(list, e) == Append(list, e)

\* one entry of the pass: merged into the last entry of new_list when it
\* overlaps it, appended otherwise
CoalesceOne(list, e) ==
    IF list # <<>> /\ Overlaps(list[Len(list)], e)
    THEN [list EXCEPT ![Len(list)] =
            [start |-> Min2(@.start, e.start),
             end |-> Max2(@.end, e.end),
             rects |-> @.rects \o e.rects]]
    ELSE Append(list, e)

\* main.rs 626-638 with the coalesced list thrown away
MainListKeepOriginal(flag, list, new_list) == list

\* main.rs 626-638: `if args.coalesce { new_list } else { list }`
MainList(flag, list, new_list) == IF flag THEN new_list ELSE list

CoalesceInit ==
    /\ coalesce \in BOOLEAN
    /\ cIn \in CoalesceInputs
    /\ cOut = <<>>
    /\ cPos = 0
    /\ cList = None
    /\ CoalesceRestIdle

\* one iteration of list.coalesce()
CoalesceStep ==
    /\ coalesce
    /\ cList = None
    /\ cPos >= 0
    /\ cPos < Len(cIn)
    /\ cOut' = CoalesceOne(cOut, cIn[cPos + 1])
    /\ cPos' = cPos + 1
    /\ UNCHANGED <<coalesce, cIn, cList>>
    /\ UNCHANGED CoalesceRest

\* the closure of main.rs 625-639 returns the list for the file
CollectList ==
    /\ cPos >= 0
    /\ cList = None
    /\ coalesce => cPos = Len(cIn)
    /\ cList' = Some(MainList(coalesce, cIn, cOut))
    /\ UNCHANGED <<coalesce, cIn, cOut, cPos>>
    /\ UNCHANGED CoalesceRest

CoalesceNext == CoalesceStep \/ CollectList

SpecCoalesce == CoalesceInit /\ [][CoalesceNext]_vars

(***************************************************************************)
(* Claims about coalescing.                                                *)
(***************************************************************************)
Range(f) == {f[i] : i \in DOMAIN f}

\* C4: for a list in non-decreasing start order, a step of the pass on a
\* next entry e: when the last output entry and e overlap (their closed
\* timespans share a point, touching endpoints included) the last entry
\* becomes [min(start), max(end)] with the payloads of both and nothing is
\* appended; otherwise e is appended unchanged.  With --coalesce,
\* [100,1000] and [500,5000] give the one entry [100,5000], and [100,1000]
\* and [5000,5100] stay as they are.
C4_CoalesceOverlapping ==
    [][/\ (cPos' = cPos + 1 /\ IsSortedByStart(cIn)) =>
            LET e == cIn[cPos + 1]
                n == Len(cOut)
            IN  IF n > 0 /\ cOut[n].start <= e.end /\ e.start <= cOut[n].end
                THEN /\ Len(cOut') = n
                     /\ cOut'[n].start = Min2(cOut[n].start, e.start)
                     /\ cOut'[n].end = Max2(cOut[n].end, e.end)
                     /\ Range(cOut'[n].rects) = Range(cOut[n].rects) \cup Range(e.rects)
                     /\ \A i \in 1..(n - 1) : cOut'[i] = cOut[i]
                ELSE cOut' = Append(cOut, e)
       /\ (cList' # None /\ coalesce) =>
            \A ra, rb \in CoalesceRects :
               /\ cIn = <<[start |-> 100, end |-> 1000, rects |-> ra],
                          [start |-> 500, end |-> 5000, rects |-> rb]>>
                    => /\ Len(Unwrap(cList')) = 1
                       /\ Unwrap(cList')[1].start = 100
                       /\ Unwrap(cList')[1].end = 5000
               /\ cIn = <<[start |-> 100, end |-> 1000, rects |-> ra],
                          [start |-> 5000, end |-> 5100, rects |-> rb]>>
                    => Unwrap(cList') = cIn]_vars

\* the touching entries [100,1000], [1000,5000] were coalesced into one
\* entry that carries both payloads
C4_Witness ==
    /\ coalesce
    /\ cList # None
    /\ cIn = <<[start |-> 100, end |-> 1000, rects |-> <<"a">>],
               [start |-> 1000, end |-> 5000, rects |-> <<"b">>]>>
    /\ Unwrap(cList) = <<[start |-> 100, end |-> 5000, rects |-> <<"a", "b">>]>>

\* the whole pass over a list
RECURSIVE CoalesceFrom(_, _)
CoalesceFrom(new_list, list) ==
    IF list = <<>> THEN new_list
    ELSE CoalesceFrom(CoalesceOne(new_list, Head(list)), Tail(list))

\* the payloads of a list, entry after entry
PayloadsOf(list) == Flatten([i \in 1..Len(list) |-> list[i].rects])

\* C37: for input in non-decreasing start order, no two entries of the
\* output of the pass share a point, adjacent or not, so the pass applied
\* to its own output returns it unchanged; and every payload of the input
\* read so far is in exactly one output entry.
C37_CoalescedOutputIsDisjoint ==
    (coalesce /\ cPos >= 0) =>
        /\ \A i, j \in 1..Len(cOut) :
              i < j => (cOut[i].end < cOut[j].start \/ cOut[j].end < cOut[i].start)
        /\ CoalesceFrom(<<>>, cOut) = cOut
        /\ PayloadsOf(cOut) = PayloadsOf(SubSeq(cIn, 1, cPos))

\* three entries, the last two of them the same span, gave two entries
\* that do not overlap, the second with both payloads
C37_Witness ==
    /\ coalesce
    /\ cPos = 3
    /\ Len(cIn) = 3
    /\ cIn[2].start = cIn[3].start
    /\ Len(cOut) = 2
    /\ cOut[1] = cIn[1]
    /\ Len(cOut[2].rects) = 2

(***************************************************************************)
(* Filter pipeline.  The options are those of src/src/args.rs, the plain   *)
(* text of an entry is Subtitle::text (src/src/subtitle.rs); the stages    *)
(* themselves are described in the specification.                          *)
(***************************************************************************)
\* longest list handed to the filter pipeline
MaxFilterSubs == 2

TimestampMIN == 0
TimestampMAX == I64_MAX

\* Args::default(): ignore_styled: true
ArgsDefaultIgnoreStyled == TRUE

\* Args::ignore_styled(): `--ignore-styled` sets the field to true
ignore_styled(given) == IF given THEN TRUE ELSE ArgsDefaultIgnoreStyled

\* --start/--end: the defaults are Timestamp::MIN and Timestamp::MAX
FilterWindows ==
    {<<TimestampMIN, TimestampMAX>>, <<3000, TimestampMAX>>,
     <<TimestampMIN, 3000>>, <<1, 2999>>}
FilterBlacklists == {<<>>, << <<"Hello">> >>}
FilterWhitelists == {<<>>, << <<"Goodbye">> >>}
FilterArgs ==
    {[start |-> w[1], end |-> w[2], blacklist |-> b, whitelist |-> wl, styledArg |-> g] :
        w \in FilterWindows, b \in FilterBlacklists, wl \in FilterWhitelists,
        g \in BOOLEAN}

FilterDialogues ==
    {DialogueText(<<"Hello", "World!">>), DialogueText(<<"Goodbye">>),
     DialogueAss(<<"Goodbye">>, TRUE), DialogueAss(<<"Hello", "World!">>, FALSE),
     DialogueBitmap("img")}
FilterSpans == {<<0, 2500>>, <<3000, 4000>>}
FilterInputs ==
    SeqsUpTo({Sub(sp[1], sp[2], d) : sp \in FilterSpans, d \in FilterDialogues},
             MaxFilterSubs)

\* Subtitle::text with an empty text for a bitmap
SubtitleTextBitmapEmpty(sub) ==
    IF sub.diag.kind = "Text" THEN Some(sub.diag.text)
    ELSE IF sub.diag.kind = "Ass" THEN Some(sub.diag.text.dialogue)
    ELSE Some(<<>>)

\* Subtitle::text: the plain text of a text or styled-text dialogue, None
\* for a bitmap
SubtitleText(sub) ==
    IF sub.diag.kind = "Text" THEN Some(sub.diag.text)
    ELSE IF sub.diag.kind = "Ass" THEN Some(sub.diag.text.dialogue)
    ELSE None

\* Regex::is_match of a literal pattern: the pattern occurs somewhere in
\* the text
IsMatch(pattern, text) ==
    \E i \in 0..(Len(text) - Len(pattern)) :
        \A j \in 1..Len(pattern) : text[i + j] = pattern[j]

MatchesAny(patterns, sub) ==
    /\ SubtitleText(sub) # None
    /\ \E k \in 1..Len(patterns) : IsMatch(patterns[k], Unwrap(SubtitleText(sub)))

\* stage 1: the start lies in the closed window
KeepWindow(sub, args) ==
    args.start <= sub.timespan.start /\ sub.timespan.start <= args.end
\* stage 2: the text matches no blacklist pattern
KeepBlacklist(sub, args) == ~MatchesAny(args.blacklist, sub)
\* stage 3: with a whitelist, the text matches one of its patterns
KeepWhitelist(sub, args) ==
    \/ args.whitelist = <<>>
    \/ SubtitleText(sub) = None
    \/ MatchesAny(args.whitelist, sub)
\* stage 4: styled dialogue is dropped when styled text is ignored
KeepStyled(sub, args) ==
    ~(ignore_styled(args.styledArg) /\ sub.diag.kind = "Ass" /\ sub.diag.text.styled)

\* the predicate of stage k
StageKeep(k, sub, args) ==
    CASE k = 1 -> KeepWindow(sub, args)
      [] k = 2 -> KeepBlacklist(sub, args)
      [] k = 3 -> KeepWhitelist(sub, args)
      [] k = 4 -> KeepStyled(sub, args)

\* a stage that drops only the first entry its predicate rejects
RECURSIVE FilterStageDropFirst(_, _, _)
FilterStageDropFirst(k, list, args) ==
    IF list = <<>> THEN <<>>
    ELSE IF ~StageKeep(k, Head(list), args) THEN Tail(list)
    ELSE <<Head(list)>> \o FilterStageDropFirst(k, Tail(list), args)

\* stage k of the pipeline: the entries its predicate keeps, in their order
FilterStage(k, list, args) ==
    SelectSeq(list, LAMBDA e : StageKeep(k, e, args))

FilterInit ==
    /\ fArgs \in FilterArgs
    /\ fIn \in FilterInputs
    /\ fCur = fIn
    /\ fStage = 0
    /\ FilterRestIdle

FilterWindow ==
    /\ fStage = 0
    /\ fCur' = FilterStage(1, fCur, fArgs)
    /\ fStage' = 1
    /\ UNCHANGED <<fArgs, fIn>>
    /\ UNCHANGED FilterRest

FilterBlacklist ==
    /\ fStage = 1
    /\ fCur' = FilterStage(2, fCur, fArgs)
    /\ fStage' = 2
    /\ UNCHANGED <<fArgs, fIn>>
    /\ UNCHANGED FilterRest

FilterWhitelist ==
    /\ fStage = 2
    /\ fCur' = FilterStage(3, fCur, fArgs)
    /\ fStage' = 3
    /\ UNCHANGED <<fArgs, fIn>>
    /\ UNCHANGED FilterRest

FilterStyled ==
    /\ fStage = 3
    /\ fCur' = FilterStage(4, fCur, fArgs)
    /\ fStage' = 4
    /\ UNCHANGED <<fArgs, fIn>>
    /\ UNCHANGED FilterRest

FilterNext == FilterWindow \/ FilterBlacklist \/ FilterWhitelist \/ FilterStyled

SpecFilter == FilterInit /\ [][FilterNext]_vars

(***************************************************************************)
(* Claims about the filter pipeline.                                       *)
(***************************************************************************)
\* the plain text of e contains one of the patterns
C5_TextMatches(e, patterns) ==
    LET text == IF e.diag.kind = "Text" THEN e.diag.text ELSE e.diag.text.dialogue
    IN  \E k \in 1..Len(patterns) : IsMatch(patterns[k], text)

\* the start is in the closed window, and the entry is a bitmap or its
\* text matches no blacklist pattern and, with a whitelist, one of its
\* patterns
C5_Survives(e) ==
    /\ fArgs.start <= e.timespan.start
    /\ e.timespan.start <= fArgs.end
    /\ \/ e.diag.kind = "Bitmap"
       \/ /\ ~C5_TextMatches(e, fArgs.blacklist)
          /\ (fArgs.whitelist = <<>> \/ C5_TextMatches(e, fArgs.whitelist))

C5_IsStyled(e) == e.diag.kind = "Ass" /\ e.diag.text.styled

\* C5 as claimed: once the pipeline has run, its output is the input
\* without the entries that do not survive, in the input's order, where an
\* entry survives iff its start is in the closed window and it is a bitmap
\* or passes the blacklist and the whitelist.
C5_SurvivesIffWindowAndText ==
    fStage = 4 => fCur = SelectSeq(fIn, C5_Survives)

\* C5 as amended: an entry survives iff its start is in the closed window,
\* it is a bitmap or passes the blacklist and the whitelist, and it is not
\* styled text while styled text is ignored; the output keeps the input's
\* order.  "Hello World!" [0,2500] and "Goodbye" [3000,4000] with the
\* blacklist "Hello" leave exactly the "Goodbye" entry.
C5_SurvivesUnlessStyled ==
    fStage = 4 =>
        /\ fCur = SelectSeq(fIn, LAMBDA e :
                     C5_Survives(e) /\ ~(ignore_styled(fArgs.styledArg) /\ C5_IsStyled(e)))
        /\ (/\ fIn = <<Sub(0, 2500, DialogueText(<<"Hello", "World!">>)),
                       Sub(3000, 4000, DialogueText(<<"Goodbye">>))>>
            /\ fArgs.blacklist = << <<"Hello">> >>
            /\ fArgs.start = TimestampMIN /\ fArgs.end = TimestampMAX)
              => fCur = <<Sub(3000, 4000, DialogueText(<<"Goodbye">>))>>

\* a bitmap went through a pipeline with a whitelist while a text entry
\* before it was dropped by the whitelist
C5_Witness ==
    /\ fStage = 4
    /\ fArgs.whitelist # <<>>
    /\ Len(fIn) = 2
    /\ fIn[1].diag = DialogueText(<<"Hello", "World!">>)
    /\ fIn[2].diag.kind = "Bitmap"
    /\ fCur = <<fIn[2]>>

\* the four stages in every order
StageOrders ==
    {order \in [1..4 -> 1..4] : \A i, j \in 1..4 : order[i] = order[j] => i = j}

\* the stages applied one after the other in the given order
RECURSIVE ApplyStages(_, _, _)
ApplyStages(order, list, args) ==
    IF order = <<>> THEN list
    ELSE ApplyStages(Tail(order), FilterStage(Head(order), list, args), args)

\* C24: the filter predicates are order-independent and deterministic: the
\* time-window, blacklist, whitelist and drop-styled stages applied in any
\* order give the same surviving sequence, and the pipeline run again with
\* the same configuration on the same input, or on its own output, gives
\* the same result.
C24_OrderIndependentIdempotent ==
    fStage = 4 =>
        /\ \A order \in StageOrders : ApplyStages(order, fIn, fArgs) = fCur
        /\ ApplyStages(<<1, 2, 3, 4>>, fCur, fArgs) = fCur

\* the window alone drops the first entry, the blacklist alone the second
C24_Witness ==
    /\ fStage = 4
    /\ Len(fIn) = 2
    /\ ~KeepWindow(fIn[1], fArgs) /\ KeepBlacklist(fIn[1], fArgs)
    /\ KeepWindow(fIn[2], fArgs) /\ ~KeepBlacklist(fIn[2], fArgs)
    /\ fCur = <<>>

\* C25: the styled-text filter is optional: an entry is removed by it only
\* when the user passed --ignore-styled and the dialogue is styled text
\* (its raw form had a `{`); without the option the filter is off and the
\* styled entries that pass the other stages survive.
C25_StyledFilterIsOptional ==
    fStage = 4 =>
        fCur = SelectSeq(fIn, LAMBDA e :
                  /\ KeepWindow(e, fArgs)
                  /\ KeepBlacklist(e, fArgs)
                  /\ KeepWhitelist(e, fArgs)
                  /\ ~(fArgs.styledArg /\ C5_IsStyled(e)))

(***************************************************************************)
(* Video sampling: extract_images_from_stream (src/src/image.rs).          *)
(* Every packet of the video stream carries one frame; the decoder may     *)
(* hold frames back until it is flushed.                                   *)
(***************************************************************************)
\* packets in the file
MaxStreamPackets == 3
\* sample points of a file
MaxPoints == 2

PointTimes == {0, 2, 3}
SamplePoints == SeqsUpTo(PointTimes, MaxPoints)
\* decoded.pts() of a frame
FramePts == {None, Some(-1), Some(1), Some(2)}

\* Timestamp::from_libav_ts(decoded.pts().unwrap_or(0), time_base)
FrameTs(pts, tb) == from_libav_ts(IF pts = None THEN 0 ELSE Unwrap(pts), tb)

\* the send loop of the old extract_images: one point for a frame
SatisfiedOnlyFirst(points, next, frame_ts) ==
    IF next < Len(points) /\ frame_ts >= points[next + 1] THEN 1 ELSE 0

\* the send loop leaves the last of several satisfied points to the next
\* frame
SatisfiedButLast(points, next, frame_ts) ==
    LET n == CHOOSE m \in 0..(Len(points) - next) :
                 /\ \A i \in 1..m : frame_ts >= points[next + i]
                 /\ (next + m < Len(points) => frame_ts < points[next + m + 1])
    IN  IF n >= 2 THEN n - 1 ELSE n

\* `while let Some(..) = points.next_if(|(ts, _)| frame_ts >= *ts)`: the
\* number of points the loop takes from the iterator
RECURSIVE Satisfied(_, _, _)
Satisfied(points, next, frame_ts) ==
    IF next < Len(points) /\ frame_ts >= points[next + 1]
    THEN 1 + Satisfied(points, next + 1, frame_ts)
    ELSE 0

\* the body of `while decoder.receive_frame(..).is_ok()` for a frame with
\* the given pts, pending points from next on; fail is what goes wrong:
\* "none", "convert" (scaler.run or RgbImage::from_raw), or "send" after
\* `sends` images went through.  Gives how the closure goes on ("loop",
\* "false" for return Ok(false), "err"), and the points taken.
ProcessFrame(points, next, pts, tb, fail, sends) ==
    LET ts == FrameTs(pts, tb)
    IN  IF ~ts.ok THEN [go |-> "err", taken |-> 0]
        ELSE IF next >= Len(points) THEN [go |-> "false", taken |-> 0]
        ELSE IF ts.ts < points[next + 1] THEN [go |-> "loop", taken |-> 0]
        ELSE IF fail = "convert" THEN [go |-> "err", taken |-> 0]
        ELSE LET n == Satisfied(points, next, ts.ts)
             IN  IF fail = "send" /\ sends < n
                 THEN [go |-> "err", taken |-> sends + 1]
                 ELSE [go |-> "loop", taken |-> n]

SamplingInit ==
    /\ sPoints \in SamplePoints
    /\ sTimeBase \in TimeBases
    /\ sNext = 0
    /\ sRead = 0
    /\ sSent = 0
    /\ sFrames = <<>>
    /\ sEmitted = <<>>
    /\ sPc = "packets"
    /\ SamplingRestIdle

\* `for (stream, packet) in ictx.packets()`: a packet of another stream
SkipPacket ==
    /\ sPc = "packets"
    /\ sRead < MaxStreamPackets
    /\ sRead' = sRead + 1
    /\ UNCHANGED <<sPoints, sTimeBase, sNext, sSent, sFrames, sEmitted, sPc>>
    /\ UNCHANGED SamplingRest

\* a packet of the video stream: decoder.send_packet(&packet)?
SendPacket(ok) ==
    /\ sPc = "packets"
    /\ sRead < MaxStreamPackets
    /\ sRead' = sRead + 1
    /\ IF ok THEN sSent' = sSent + 1 /\ sPc' = "receive"
       ELSE sSent' = sSent /\ sPc' = "error"
    /\ UNCHANGED <<sPoints, sTimeBase, sNext, sFrames, sEmitted>>
    /\ UNCHANGED SamplingRest

\* a job that fails when points were left without an image
SamplingResultStrict(points, next) ==
    IF next < Len(points) THEN "error" ELSE "done"

\* the end of the job: `let remaining = points.count()`, a warning when
\* remaining > 0, then Ok(())
SamplingResult(points, next) == "done"

\* receive_frame returns a frame: one iteration of the closure's loop
ReceiveFrame(pts, fail, sends) ==
    /\ sPc \in {"receive", "flush"}
    /\ Len(sFrames) < sSent
    /\ LET r == ProcessFrame(sPoints, sNext, pts, sTimeBase, fail, sends)
           k == Len(sFrames) + 1
           \* the images that reached the channel
           n == IF r.go = "err" /\ r.taken > 0 THEN r.taken - 1 ELSE r.taken
       IN  /\ sFrames' = Append(sFrames, pts)
           /\ sNext' = sNext + r.taken
           /\ sEmitted' = sEmitted \o [i \in 1..n |-> [point |-> sNext + i, frame |-> k]]
           /\ sPc' = IF r.go = "err" THEN "error"
                     ELSE IF r.go = "loop" THEN sPc
                     ELSE IF sPc = "receive" THEN "eof"
                     ELSE SamplingResult(sPoints, sNext')
    /\ UNCHANGED <<sPoints, sTimeBase, sRead, sSent>>
    /\ UNCHANGED SamplingRest

\* receive_frame returns an error (the decoder wants input, or is drained
\* after the flush): the closure returns Ok(true)
ReceiveNone ==
    /\ \/ sPc = "receive" /\ sPc' = "packets"
       \/ /\ sPc = "flush"
          /\ Len(sFrames) = sSent
          /\ sPc' = SamplingResult(sPoints, sNext)
    /\ UNCHANGED <<sPoints, sTimeBase, sNext, sRead, sSent, sFrames, sEmitted>>
    /\ UNCHANGED SamplingRest

\* the packet iterator is exhausted
EndOfPackets ==
    /\ sPc = "packets"
    /\ sPc' = "eof"
    /\ UNCHANGED <<sPoints, sTimeBase, sNext, sRead, sSent, sFrames, sEmitted>>
    /\ UNCHANGED SamplingRest

\* decoder.send_eof()?, then the closure is called once more
SendEof(ok) ==
    /\ sPc = "eof"
    /\ sPc' = IF ok THEN "flush" ELSE "error"
    /\ UNCHANGED <<sPoints, sTimeBase, sNext, sRead, sSent, sFrames, sEmitted>>
    /\ UNCHANGED SamplingRest

SamplingNext ==
    \/ SkipPacket
    \/ \E ok \in BOOLEAN : SendPacket(ok)
    \/ \E pts \in FramePts, fail \in {"none", "convert", "send"}, sends \in 0..1 :
          ReceiveFrame(pts, fail, sends)
    \/ ReceiveNone
    \/ EndOfPackets
    \/ \E ok \in BOOLEAN : SendEof(ok)

SpecSampling == SamplingInit /\ [][SamplingNext]_vars

\* the job runs on its own thread of the pool and every step of it returns
SpecSamplingFair ==
    SamplingInit /\ [][SamplingNext]_vars /\ WF_vars(SamplingNext)

(***************************************************************************)
(* Claims about video sampling.                                            *)
(***************************************************************************)
PointsSorted == \A i \in 1..(Len(sPoints) - 1) : sPoints[i] <= sPoints[i + 1]

\* timestamp of the k-th frame received
ReceivedTs(k) == FrameTs(sFrames[k], sTimeBase).ts

\* the frame that served the last image sent, 0 when none was sent
LastEmitFrame == IF sEmitted = <<>> THEN 0 ELSE sEmitted[Len(sEmitted)].frame

\* frames received since the last image, while no point is pending
IdleFrames == Len(sFrames) - LastEmitFrame

\* every image sent pairs its point with the first frame received whose
\* timestamp is >= the point's
Paired ==
    \A i \in 1..Len(sEmitted) :
       LET e == sEmitted[i]
       IN  /\ ReceivedTs(e.frame) >= sPoints[e.point]
           /\ \A k \in 1..(e.frame - 1) : ReceivedTs(k) < sPoints[e.point]

\* with no point pending: no frame was received in the packet loop without
\* ending it, and the flush received at most one more
StopsWhenNonePending ==
    sNext = Len(sPoints) =>
        /\ sPc \in {"packets", "receive"} => IdleFrames = 0
        /\ sPc \in {"eof", "flush"} => IdleFrames <= 1
        /\ sPc = "done" => IdleFrames <= 2

\* C6: with the sample points in non-decreasing order, every image sent
\* pairs its point with the first frame received whose timestamp is >= the
\* point's.  The cursor only moves forward: packets read, packets sent
\* and frames received never decrease, received frames are never taken
\* back, and no more frames are received than packets were read, however
\* many points there are.  Decoding stops once no point is pending: the
\* first frame received with no point pending ends the packet loop, and
\* the flush after it receives at most one more frame.
C6_FirstFrameAtOrAfterPoint ==
    [][/\ PointsSorted => Paired'
       /\ sRead' >= sRead /\ sSent' >= sSent /\ sNext' >= sNext
       /\ Len(sFrames') >= Len(sFrames)
       /\ SubSeq(sFrames', 1, Len(sFrames)) = sFrames
       /\ Len(sFrames') <= sSent' /\ sSent' <= sRead'
       /\ StopsWhenNonePending']_vars

\* two points were served by the second frame received, the first frame
\* being too early for both, and the run ended on a frame nobody waited for
C6_Witness ==
    /\ sPc = "done"
    /\ Len(sPoints) = 2
    /\ sPoints[1] < sPoints[2]
    /\ Len(sEmitted) = 2
    /\ sEmitted[1].frame = 2
    /\ sEmitted[2].frame = 2
    /\ Len(sFrames) = 3

\* the images sent are those of the first points of the list, one image
\* for each, in the order of the list
EmittedInListOrder ==
    /\ Len(sEmitted) = sNext
    /\ sNext <= Len(sPoints)
    /\ \A i \in 1..Len(sEmitted) : sEmitted[i].point = i
    /\ \A i \in 1..(Len(sEmitted) - 1) : sEmitted[i].frame <= sEmitted[i + 1].frame

\* every point that a received frame has reached got its image from that
\* frame or from an earlier one
ReachedPointsServed ==
    \A k \in 1..Len(sFrames) :
        \A q \in 1..Len(sPoints) :
            sPoints[q] <= ReceivedTs(k) =>
                \E i \in 1..Len(sEmitted) :
                    sEmitted[i].point = q /\ sEmitted[i].frame <= k

\* C31: each sample point is emitted at most once and the emissions follow
\* the order of the point list, so no more images are sent than there are
\* points; and with the points in non-decreasing order, a frame that
\* satisfies several pending points is sent once to each of them before the
\* next frame is examined.
C31_EachPointOnceInOrder ==
    /\ sPc # "error" => EmittedInListOrder
    /\ Len(sEmitted) <= Len(sPoints)
    /\ \A i, j \in 1..Len(sEmitted) : sEmitted[i].point = sEmitted[j].point => i = j
    /\ (PointsSorted /\ sPc # "error" /\ sPc # "idle") => ReachedPointsServed

\* the first frame received served both points of the list
C31_Witness ==
    /\ sPc = "done"
    /\ Len(sPoints) = 2
    /\ sPoints[1] < sPoints[2]
    /\ Len(sFrames) = 1
    /\ sEmitted = <<[point |-> 1, frame |-> 1], [point |-> 2, frame |-> 1]>>

\* the job has returned: Ok(()) or an error
SamplingReturned == sPc \in {"done", "error"}

\* every image was sent for a point that its frame had reached
OnlyReachedPointsEmitted ==
    \A i \in 1..Len(sEmitted) :
        /\ sEmitted[i].point <= sNext
        /\ sPoints[sEmitted[i].point] <= ReceivedTs(sEmitted[i].frame)

\* C40: sampling returns for every finite packet stream; when the stream
\* ends before all sample points are reached the unreached points produce
\* no image, the images already sent stay as they are, and the job returns
\* success once the decoder is drained, whatever number of points is left.
C40_SamplingTerminates ==
    /\ <>SamplingReturned
    /\ []OnlyReachedPointsEmitted
    /\ [][/\ Len(sEmitted') >= Len(sEmitted)
          /\ SubSeq(sEmitted', 1, Len(sEmitted)) = sEmitted
          /\ (sPc = "flush" /\ Len(sFrames) = sSent) => sPc' = "done"
          /\ (sPc \in {"packets", "eof"} /\ sNext < Len(sPoints))
                => (sEmitted' = sEmitted /\ sNext' = sNext)]_vars

\* the stream ended after one image, the second point was never reached,
\* and the job returned Ok
C40_Witness ==
    /\ sPc = "done"
    /\ Len(sPoints) = 2
    /\ sNext = 1
    /\ sEmitted = <<[point |-> 1, frame |-> 1]>>
    /\ Len(sFrames) = sSent
    /\ \A k \in 1..Len(sFrames) : ReceivedTs(k) < sPoints[2]

(***************************************************************************)
(* main (src/src/main.rs 646-797): the image channel with its producers    *)
(* and consumers, the ffmpeg commands, the package, the exit code.  Jobs   *)
(* and threads of one kind are interchangeable and are counted.            *)
(***************************************************************************)
\* media files of a run
MaxFiles == 2
\* images all files send on the channel in a run
MaxImages == 3
\* consumer threads: main.rs spawns 12; the model takes fewer, so that the
\* images of a run can outnumber them
NumConsumers == 2

MainArgs ==
    [gen_audio : BOOLEAN, gen_image : BOOLEAN, print_command : BOOLEAN,
     no_media : BOOLEAN, no_deck : BOOLEAN]

\* the iterator keeps a clone of the sender that main never gives up
SendersInIterAndMain(n) == n + 1

\* rayon::iter::repeatn(sender, media_files.len()): the sender is moved into
\* the iterator, which hands one handle to every job
SendersInIter(n) == n

\* unbounded(): a send never waits for room
ChannelHasRoom(queue) == TRUE

\* Receiver handles: `receiver` of main, and a clone in every consumer
\* thread that is still running
Receivers(cons) == 1 + cons.recv + cons.writing

MainInit ==
    /\ jArgs \in MainArgs
    /\ jFiles \in 0..MaxFiles
    /\ jSubs \in (IF jFiles = 0 THEN {0} ELSE {0, 1})
    /\ jPc = "start"
    /\ jProd = NoProducers
    /\ jSenders = 0
    /\ jSent = 0
    /\ jQueue = 0
    /\ jCons = NoConsumers
    /\ jWritten = 0
    /\ jCmd = NoCommands
    /\ jExit = None
    /\ MainRestIdle

\* main.rs 666-678: generate_audio_commands(..)? builds one command for
\* every file, or fails and main returns the error
PlanAudio(ok) ==
    /\ jPc = "start"
    /\ IF ~jArgs.gen_audio
       THEN jPc' = "images" /\ UNCHANGED <<jCmd, jExit>>
       ELSE IF ok
       THEN jPc' = "images" /\ jCmd' = [jCmd EXCEPT !.pending = jFiles] /\ UNCHANGED jExit
       ELSE jPc' = "exited" /\ jExit' = Some(1) /\ UNCHANGED jCmd
    /\ UNCHANGED <<jArgs, jFiles, jSubs, jProd, jSenders, jSent, jQueue, jCons, jWritten>>
    /\ UNCHANGED MainRest

\* main.rs 680-715: unbounded() and the lazy parallel iterator
OpenChannel ==
    /\ jPc = "images"
    /\ jArgs.gen_image
    /\ jPc' = "spawn"
    /\ jSenders' = 1
    /\ UNCHANGED <<jArgs, jFiles, jSubs, jProd, jSent, jQueue, jCons, jWritten, jCmd, jExit>>
    /\ UNCHANGED MainRest

\* main.rs 680: gen_image is not set
SkipImages ==
    /\ jPc = "images"
    /\ ~jArgs.gen_image
    /\ jPc' = "print"
    /\ UNCHANGED <<jArgs, jFiles, jSubs, jProd, jSenders, jSent, jQueue, jCons, jWritten, jCmd, jExit>>
    /\ UNCHANGED MainRest

\* main.rs 718-727: s.spawn of one consumer thread
SpawnConsumer ==
    /\ jPc = "spawn"
    /\ jCons.recv + jCons.writing + jCons.ok + jCons.err < NumConsumers
    /\ jCons' = [jCons EXCEPT !.recv = @ + 1]
    /\ UNCHANGED <<jArgs, jFiles, jSubs, jPc, jProd, jSenders, jSent, jQueue, jWritten, jCmd, jExit>>
    /\ UNCHANGED MainRest

\* main.rs 729: iter.collect() starts the jobs of all files
StartCollect ==
    /\ jPc = "spawn"
    /\ jCons.recv + jCons.writing + jCons.ok + jCons.err = NumConsumers
    /\ jPc' = "collect"
    /\ jProd' = [jProd EXCEPT !.pending = jFiles]
    /\ jSenders' = SendersInIter(jFiles)
    /\ UNCHANGED <<jArgs, jFiles, jSubs, jSent, jQueue, jCons, jWritten, jCmd, jExit>>
    /\ UNCHANGED MainRest

\* main.rs 693-701: the pool takes the job of a file
StartJob ==
    /\ jPc = "collect"
    /\ jProd.pending > 0
    /\ jProd' = [jProd EXCEPT !.pending = @ - 1, !.running = @ + 1]
    /\ UNCHANGED <<jArgs, jFiles, jSubs, jPc, jSenders, jSent, jQueue, jCons, jWritten, jCmd, jExit>>
    /\ UNCHANGED MainRest

\* extract_images: a job has an image and calls sender.send(..)
BeginSend ==
    /\ jProd.running > 0
    /\ jSubs > 0
    /\ jSent < MaxImages
    /\ jSent' = jSent + 1
    /\ jProd' = [jProd EXCEPT !.running = @ - 1, !.sending = @ + 1]
    /\ UNCHANGED <<jArgs, jFiles, jSubs, jPc, jSenders, jQueue, jCons, jWritten, jCmd, jExit>>
    /\ UNCHANGED MainRest

\* extract_images: sender.send(..).context(..)? returns: the image is in
\* the channel, or no Receiver is left and the job returns the error
CompleteSend ==
    /\ jProd.sending > 0
    /\ ChannelHasRoom(jQueue)
    /\ IF Receivers(jCons) > 0
       THEN /\ jQueue' = jQueue + 1
            /\ jProd' = [jProd EXCEPT !.sending = @ - 1, !.running = @ + 1]
            /\ UNCHANGED jSenders
       ELSE /\ jProd' = [jProd EXCEPT !.sending = @ - 1, !.err = @ + 1]
            /\ jSenders' = jSenders - 1
            /\ UNCHANGED jQueue
    /\ UNCHANGED <<jArgs, jFiles, jSubs, jPc, jSent, jCons, jWritten, jCmd, jExit>>
    /\ UNCHANGED MainRest

\* main.rs 701-712: extract_images returns, its sender is dropped; an Err
\* is logged
JobFinish(ok) ==
    /\ jProd.running > 0
    /\ jProd' = IF ok THEN [jProd EXCEPT !.running = @ - 1, !.ok = @ + 1]
                ELSE [jProd EXCEPT !.running = @ - 1, !.err = @ + 1]
    /\ jSenders' = jSenders - 1
    /\ UNCHANGED <<jArgs, jFiles, jSubs, jPc, jSent, jQueue, jCons, jWritten, jCmd, jExit>>
    /\ UNCHANGED MainRest

\* main.rs 729: collect() returns when every job has returned
CollectDone ==
    /\ jPc = "collect"
    /\ jProd.pending = 0
    /\ jProd.running = 0
    /\ jProd.sending = 0
    /\ jPc' = "join"
    /\ UNCHANGED <<jArgs, jFiles, jSubs, jProd, jSenders, jSent, jQueue, jCons, jWritten, jCmd, jExit>>
    /\ UNCHANGED MainRest

\* convert_and_write_images: receiver.recv() returns an image
ConsumerRecv ==
    /\ jCons.recv > 0
    /\ jQueue > 0
    /\ jQueue' = jQueue - 1
    /\ jCons' = [jCons EXCEPT !.recv = @ - 1, !.writing = @ + 1]
    /\ UNCHANGED <<jArgs, jFiles, jSubs, jPc, jProd, jSenders, jSent, jWritten, jCmd, jExit>>
    /\ UNCHANGED MainRest

\* convert_and_write_images: image.save(..)?: on an error the function
\* returns it and the thread ends
ConsumerWrite(ok) ==
    /\ jCons.writing > 0
    /\ IF ok
       THEN /\ jCons' = [jCons EXCEPT !.writing = @ - 1, !.recv = @ + 1]
            /\ jWritten' = jWritten + 1
       ELSE /\ jCons' = [jCons EXCEPT !.writing = @ - 1, !.err = @ + 1]
            /\ UNCHANGED jWritten
    /\ UNCHANGED <<jArgs, jFiles, jSubs, jPc, jProd, jSenders, jSent, jQueue, jCmd, jExit>>
    /\ UNCHANGED MainRest

\* convert_and_write_images: recv() returns Err, the channel being empty
\* with no Sender left; the function returns Ok
ConsumerClosed ==
    /\ jCons.recv > 0
    /\ jQueue = 0
    /\ jSenders = 0
    /\ jCons' = [jCons EXCEPT !.recv = @ - 1, !.ok = @ + 1]
    /\ UNCHANGED <<jArgs, jFiles, jSubs, jPc, jProd, jSenders, jSent, jQueue, jWritten, jCmd, jExit>>
    /\ UNCHANGED MainRest

\* main.rs 717-730: thread::scope returns when every thread has ended
ScopeExit ==
    /\ jPc = "join"
    /\ jCons.recv = 0
    /\ jCons.writing = 0
    /\ jPc' = "print"
    /\ UNCHANGED <<jArgs, jFiles, jSubs, jProd, jSenders, jSent, jQueue, jCons, jWritten, jCmd, jExit>>
    /\ UNCHANGED MainRest

\* what main does with the image channel
ChannelNext ==
    \/ \E ok \in BOOLEAN : PlanAudio(ok)
    \/ OpenChannel
    \/ SpawnConsumer
    \/ StartCollect
    \/ StartJob
    \/ BeginSend
    \/ CompleteSend
    \/ \E ok \in BOOLEAN : JobFinish(ok)
    \/ CollectDone
    \/ ConsumerRecv
    \/ \E ok \in BOOLEAN : ConsumerWrite(ok)
    \/ ConsumerClosed
    \/ ScopeExit

\* a run with -i; the options read after the scope are left out
ChannelInit ==
    /\ MainInit
    /\ jArgs.gen_image
    /\ ~jArgs.print_command /\ ~jArgs.no_media /\ ~jArgs.no_deck

\* main and every thread keep running
ChannelFairness ==
    /\ WF_vars(\E ok \in BOOLEAN : PlanAudio(ok))
    /\ WF_vars(OpenChannel)
    /\ WF_vars(SpawnConsumer)
    /\ WF_vars(StartCollect)
    /\ WF_vars(StartJob)
    /\ WF_vars(CompleteSend)
    /\ WF_vars(\E ok \in BOOLEAN : JobFinish(ok))
    /\ WF_vars(CollectDone)
    /\ WF_vars(ConsumerRecv)
    /\ WF_vars(\E ok \in BOOLEAN : ConsumerWrite(ok))
    /\ WF_vars(ConsumerClosed)
    /\ WF_vars(ScopeExit)

SpecChannel == ChannelInit /\ [][ChannelNext]_vars /\ ChannelFairness

\* main.rs 734-739: --print-command prints the commands and exits with 1
PrintCommands ==
    /\ jPc = "print"
    /\ jArgs.print_command
    /\ jPc' = "exited"
    /\ jExit' = Some(1)
    /\ UNCHANGED <<jArgs, jFiles, jSubs, jProd, jSenders, jSent, jQueue, jCons, jWritten, jCmd>>
    /\ UNCHANGED MainRest

\* main.rs 745-746: pool.scope over the commands
RunCommands ==
    /\ jPc = "print"
    /\ ~jArgs.print_command
    /\ ~jArgs.no_media
    /\ jPc' = "commands"
    /\ UNCHANGED <<jArgs, jFiles, jSubs, jProd, jSenders, jSent, jQueue, jCons, jWritten, jCmd, jExit>>
    /\ UNCHANGED MainRest

\* main.rs 762-764: --no-media, the commands are not run
SkipCommands ==
    /\ jPc = "print"
    /\ ~jArgs.print_command
    /\ jArgs.no_media
    /\ jPc' = "deck"
    /\ UNCHANGED <<jArgs, jFiles, jSubs, jProd, jSenders, jSent, jQueue, jCons, jWritten, jCmd, jExit>>
    /\ UNCHANGED MainRest

\* main.rs 747-748: s.spawn of one command; the pool runs it
StartCommand ==
    /\ jPc = "commands"
    /\ jCmd.pending > 0
    /\ jCmd' = [jCmd EXCEPT !.pending = @ - 1, !.running = @ + 1]
    /\ UNCHANGED <<jArgs, jFiles, jSubs, jPc, jProd, jSenders, jSent, jQueue, jCons, jWritten, jExit>>
    /\ UNCHANGED MainRest

CommandOutcomes == {"ok", "nonzero", "nospawn"}

\* a command that does not succeed takes the commands not yet started with it
CommandDoneCancelling(cmd, outcome) ==
    IF outcome = "ok"
    THEN [cmd EXCEPT !.running = @ - 1, ![outcome] = @ + 1]
    ELSE [cmd EXCEPT !.running = @ - 1, ![outcome] = @ + 1, !.pending = 0]

\* main.rs 748-759: match command.status(): every arm logs and returns
CommandDone(cmd, outcome) ==
    [cmd EXCEPT !.running = @ - 1, ![outcome] = @ + 1]

\* main.rs 748-759: command.status() returns
FinishCommand(outcome) ==
    /\ jPc = "commands"
    /\ jCmd.running > 0
    /\ jCmd' = CommandDone(jCmd, outcome)
    /\ UNCHANGED <<jArgs, jFiles, jSubs, jPc, jProd, jSenders, jSent, jQueue, jCons, jWritten, jExit>>
    /\ UNCHANGED MainRest

\* main.rs 746-761: pool.scope returns when every spawned task has returned
CommandsDone ==
    /\ jPc = "commands"
    /\ jCmd.pending = 0
    /\ jCmd.running = 0
    /\ jPc' = "deck"
    /\ UNCHANGED <<jArgs, jFiles, jSubs, jProd, jSenders, jSent, jQueue, jCons, jWritten, jCmd, jExit>>
    /\ UNCHANGED MainRest

\* main.rs 766-796: --no-deck, or generate_package(..)? and
\* write_to_file(..)?, then Ok(())
Deck(ok) ==
    /\ jPc = "deck"
    /\ jPc' = "exited"
    /\ jExit' = IF jArgs.no_deck \/ ok THEN Some(0) ELSE Some(1)
    /\ UNCHANGED <<jArgs, jFiles, jSubs, jProd, jSenders, jSent, jQueue, jCons, jWritten, jCmd>>
    /\ UNCHANGED MainRest

MainNext ==
    \/ \E ok \in BOOLEAN : PlanAudio(ok)
    \/ OpenChannel
    \/ SkipImages
    \/ SpawnConsumer
    \/ StartCollect
    \/ StartJob
    \/ BeginSend
    \/ CompleteSend
    \/ \E ok \in BOOLEAN : JobFinish(ok)
    \/ CollectDone
    \/ ConsumerRecv
    \/ \E ok \in BOOLEAN : ConsumerWrite(ok)
    \/ ConsumerClosed
    \/ ScopeExit
    \/ PrintCommands
    \/ RunCommands
    \/ SkipCommands
    \/ StartCommand
    \/ \E o \in CommandOutcomes : FinishCommand(o)
    \/ CommandsDone
    \/ \E ok \in BOOLEAN : Deck(ok)

SpecMain == MainInit /\ [][MainNext]_vars

(***************************************************************************)
(* Claims about the image channel and the jobs of main                     *)
(***************************************************************************)
\* collect() has started and every video-sampling job has returned, with
\* Ok or with Err, which drops its sender
ProducersFinished ==
    /\ jPc \in {"collect", "join"}
    /\ jProd.pending = 0
    /\ jProd.running = 0
    /\ jProd.sending = 0

\* thread::scope has returned
ScopeExited == jPc = "print" /\ jArgs.gen_image

\* C7: once every producer has finished and dropped its sender, every
\* consumer leaves its receive loop and the scope exits, for any number of
\* files (zero included) and of queued images; a consumer that leaves the
\* loop on a closed channel leaves it empty; when the scope has exited no
\* consumer is left and no sender is left; and a send that a producer has
\* begun returns, even when every consumer has already exited.
C7_ChannelShutdown ==
    /\ ProducersFinished ~> ScopeExited
    /\ [](ProducersFinished => jSenders = 0)
    /\ [](jCons.ok > 0 => jSenders = 0 /\ jQueue = 0)
    /\ [](ScopeExited =>
            /\ jCons.recv = 0 /\ jCons.writing = 0
            /\ jCons.ok + jCons.err = NumConsumers
            /\ jSenders = 0
            /\ jProd.ok + jProd.err = jFiles)
    /\ (jProd.sending > 0) ~> (jProd.sending = 0)

\* the scope has exited after every consumer left on a write error, with
\* an image still queued, every file's job finished and one of them failed
C7_Witness ==
    /\ ScopeExited
    /\ jFiles = MaxFiles
    /\ jCons.err = NumConsumers
    /\ jQueue > 0
    /\ jProd.err > 0
    /\ jProd.ok > 0

\* the commands main runs: one for every file with -a
CommandCount == IF jArgs.gen_audio THEN jFiles ELSE 0

\* C8: every video-sampling job and every external command is started and
\* runs to completion whatever the outcome of the others: no job is dropped
\* from the list while it runs, the scope exits only when every sampling
\* job has returned, and the commands are left only when every command has
\* returned.
C8_EveryJobRunsToCompletion ==
    /\ jPc \in {"collect", "join"} =>
         jProd.pending + jProd.running + jProd.sending + jProd.ok + jProd.err = jFiles
    /\ (jArgs.gen_image /\ jPc \in {"print", "commands", "deck"}) =>
         jProd.ok + jProd.err = jFiles
    /\ jPc = "commands" =>
         jCmd.pending + jCmd.running + jCmd.ok + jCmd.nonzero + jCmd.nospawn
            = CommandCount
    /\ (~jArgs.no_media /\ jPc = "deck") =>
         jCmd.ok + jCmd.nonzero + jCmd.nospawn = CommandCount
    /\ (~jArgs.no_media /\ jPc = "exited" /\ jExit = Some(0)) =>
         /\ jCmd.ok + jCmd.nonzero + jCmd.nospawn = CommandCount
         /\ jArgs.gen_image => jProd.ok + jProd.err = jFiles

\* a run where a sampling job failed and one succeeded, a command exited
\* non-zero, one could not be spawned, and the commands are done
C8_Witness ==
    /\ jPc = "deck"
    /\ jFiles = MaxFiles
    /\ jProd.err > 0
    /\ jProd.ok > 0
    /\ jCmd.nonzero > 0
    /\ jCmd.nospawn > 0
    /\ jCmd.pending = 0
    /\ jCmd.running = 0

\* an export job failed: a command exited non-zero, a sampling job
\* returned an error, or a consumer returned a write error
SomeJobFailed == jCmd.nonzero > 0 \/ jProd.err > 0 \/ jCons.err > 0

\* C9: if at least one export job fails, the run ends with a failure
\* status; it ends with success only if no job failed.
C9_FailureGivesFailureStatus ==
    (jPc = "exited" /\ SomeJobFailed) => jExit # Some(0)

(***************************************************************************)
(* Style parser (src/src/ass.rs, impl FromStr for AssText).  A string is   *)
(* a sequence of characters.  `brackets` is a u64: it cannot overflow on   *)
(* an input shorter than 2^64 characters.                                  *)
(***************************************************************************)
\* longest input of the enumeration
MaxAssLen == 5

\* the characters from_str tells apart, and one that is none of them
AssChars == {"a", "n", "\\", "{", "}"}

\* balanced nested braces, longer than the enumerated inputs
AssNested == <<"a", "{", "b", "{", "c", "}", "d", "}", "e">>

AssInputs == UNION {[1..n -> AssChars] : n \in 0..MaxAssLen} \cup {AssNested}

\* an escaped 'n' keeps its backslash
EscapedPushNewline(ch) == <<"\\", ch>>

\* an escaped character loses its backslash
EscapedPushUnescape(ch) == IF ch = "n" THEN <<"n">> ELSE <<ch>>

\* the `if escaped` arm: what is pushed to dialogue for the character
EscapedPush(ch) == IF ch = "n" THEN <<"n">> ELSE <<"\\", ch>>

\* a '}' with no open bracket is passed over
CloseBracketLenient(brackets) ==
    [ok |-> TRUE, brackets |-> IF brackets > 0 THEN brackets - 1 ELSE 0]

\* the `ch == '}'` arm: Err(UnbalancedBrackets) when no bracket is open
CloseBracket(brackets) ==
    IF brackets > 0 THEN [ok |-> TRUE, brackets |-> brackets - 1]
    ELSE [ok |-> FALSE, brackets |-> brackets]

\* one iteration of `for ch in s.chars()`: the locals after it, and whether
\* it returned Err
AssStep(st, ch) ==
    IF ch = "{"
    THEN [ok |-> TRUE, st |-> [st EXCEPT !.styled = TRUE, !.brackets = @ + 1]]
    ELSE IF ch = "}"
    THEN LET c == CloseBracket(st.brackets)
         IN  [ok |-> c.ok, st |-> [st EXCEPT !.brackets = c.brackets]]
    ELSE IF st.brackets = 0
    THEN IF st.escaped
         THEN [ok |-> TRUE,
               st |-> [st EXCEPT !.dialogue = @ \o EscapedPush(ch), !.escaped = FALSE]]
         ELSE IF ch = "\\"
         THEN [ok |-> TRUE, st |-> [st EXCEPT !.escaped = TRUE]]
         ELSE [ok |-> TRUE, st |-> [st EXCEPT !.dialogue = Append(@, ch)]]
    ELSE [ok |-> TRUE, st |-> st]

AssErr == [ok |-> FALSE, err |-> "UnbalancedBrackets"]

\* Ok(Self { text: s.to_string(), dialogue, styled })
AssOk(s, st) == [ok |-> TRUE, text |-> s, dialogue |-> st.dialogue, styled |-> st.styled]

RECURSIVE AssLoop(_, _, _)
\* the loop from character i on, and the return
AssLoop(s, i, st) ==
    IF i > Len(s) THEN AssOk(s, st)
    ELSE LET r == AssStep(st, s[i])
         IN  IF r.ok THEN AssLoop(s, i + 1, r.st) ELSE AssErr

\* AssText::from_str
AssTextFromStr(s) == AssLoop(s, 1, AssStart)

AssInit ==
    /\ aIn \in AssInputs
    /\ aPos = 0
    /\ aSt = AssStart
    /\ aRes = None
    /\ AssRestIdle

\* one character of the input
AssChar ==
    /\ aRes = None
    /\ aPos < Len(aIn)
    /\ LET r == AssStep(aSt, aIn[aPos + 1])
       IN  /\ aSt' = r.st
           /\ aRes' = IF r.ok THEN None ELSE Some(AssErr)
    /\ aPos' = aPos + 1
    /\ UNCHANGED aIn
    /\ UNCHANGED AssRest

\* the end of the input
AssReturn ==
    /\ aRes = None
    /\ aPos = Len(aIn)
    /\ aRes' = Some(AssOk(aIn, aSt))
    /\ UNCHANGED <<aIn, aPos, aSt>>
    /\ UNCHANGED AssRest

AssNext == AssChar \/ AssReturn

SpecAss == AssInit /\ [][AssNext]_vars

(***************************************************************************)
(* Claims about the style parser                                           *)
(***************************************************************************)
\* occurrences of ch among the first n characters of s
CountChar(s, ch, n) == Cardinality({i \in 1..n : s[i] = ch})

\* bracket depth in front of character i
DepthBefore(s, i) == CountChar(s, "{", i - 1) - CountChar(s, "}", i - 1)

RECURSIVE SelectIdx(_, _)
\* the characters of s at the positions of the set idx, left to right
SelectIdx(s, idx) ==
    IF idx = {} THEN <<>>
    ELSE LET i == CHOOSE x \in idx : \A y \in idx : x <= y
         IN  <<s[i]>> \o SelectIdx(s, idx \ {i})

\* the characters seen at depth 0, braces left out
DepthZero(s) ==
    SelectIdx(s, {i \in 1..Len(s) : s[i] \notin {"{", "}"} /\ DepthBefore(s, i) = 0})

RECURSIVE EscapeRule(_)
\* the escape rule on a brace-free string: backslash then 'n' gives 'n',
\* backslash then another character X gives backslash and X; a backslash
\* that nothing follows gives nothing
EscapeRule(s) ==
    IF s = <<>> THEN <<>>
    ELSE IF Head(s) # "\\" THEN <<Head(s)>> \o EscapeRule(Tail(s))
    ELSE IF Len(s) = 1 THEN <<>>
    ELSE IF s[2] = "n" THEN <<"n">> \o EscapeRule(Tail(Tail(s)))
    ELSE <<"\\", s[2]>> \o EscapeRule(Tail(Tail(s)))

AssReturnedOk == aRes # None /\ Unwrap(aRes).ok

\* C11: for every input that parses, the plain output is the concatenation
\* of the characters seen at bracket depth 0 with the escape rule applied;
\* every brace and every character at depth > 0 is discarded, at any depth
\* of nesting: "a{b{c}d}e" gives "ae".
C11_PlainIsDepthZeroEscaped ==
    AssReturnedOk =>
        /\ Unwrap(aRes).dialogue = EscapeRule(DepthZero(aIn))
        /\ Unwrap(aRes).text = aIn
        /\ aIn = AssNested => Unwrap(aRes).dialogue = <<"a", "e">>

\* the nested example has been parsed
C11_Witness ==
    /\ AssReturnedOk
    /\ aIn = AssNested
    /\ Unwrap(aRes).dialogue = <<"a", "e">>

\* some '}' of s stands where the bracket depth is 0
ClosesAtDepthZero(s) == \E i \in 1..Len(s) : s[i] = "}" /\ DepthBefore(s, i) = 0

\* C12: from_str returns UnbalancedBrackets exactly when the input has a
\* '}' where the bracket depth is 0, and then returns nothing else; every
\* other input parses, one that leaves a '{' open included.  The error is
\* returned at that '}', before the rest of the input is read.
C12_UnbalancedIffCloseAtDepthZero ==
    /\ aRes # None =>
        /\ Unwrap(aRes).ok <=> ~ClosesAtDepthZero(aIn)
        /\ ~Unwrap(aRes).ok => Unwrap(aRes) = AssErr
    /\ (aRes = None /\ aPos >= 0) => ~ClosesAtDepthZero(SubSeq(aIn, 1, aPos))

\* an input that closes a block and then has a '}' too many
C12_Witness ==
    /\ aRes = Some(AssErr)
    /\ aPos >= 3
    /\ aIn[1] = "{"
    /\ aIn[2] = "}"

\* C13: when s parses with plain output p, p parses, is not styled, and
\* its plain output is p.
C13_ParseIdempotent ==
    AssReturnedOk =>
        LET p == Unwrap(aRes).dialogue
            again == AssTextFromStr(p)
        IN  /\ again.ok
            /\ ~again.styled
            /\ again.dialogue = p

\* a parsed input with two backslashes in a row, a backslash directly
\* before an override block and a backslash at its end
C13_Witness ==
    /\ AssReturnedOk
    /\ Len(aIn) = MaxAssLen
    /\ aIn[1] = "\\" /\ aIn[2] = "\\"
    /\ aIn[Len(aIn)] = "\\"
    /\ \E i \in 1..(Len(aIn) - 1) : aIn[i] = "\\" /\ aIn[i + 1] = "{"

(***************************************************************************)
(* Time arithmetic (src/src/time.rs, src/src/util.rs): one call of one     *)
(* function on arguments taken from the edges and the middle of the range. *)
(***************************************************************************)
\* Timestamp values: Timestamp::MIN to Timestamp::MAX
TimestampSamples == {0, 1, 2, 100, I64_MAX - 1, I64_MAX}

\* Duration values: any i64
DurationSamples ==
    {I64_MIN, I64_MIN + 1, 0 - 101, 0 - 2, 0 - 1, 0, 1, 2, 101, I64_MAX - 1, I64_MAX}

\* source-clock ticks: any i64
TickSamples == {I64_MIN, I64_MIN + 1, 0 - 3, 0 - 1, 0, 1, 3, 4095, 4096, I64_MAX}

\* Timestamp::TIMEBASE of util.rs: nanoseconds
UtilTimestampTimebase == <<1, 1000000000>>

\* time bases of a stream, against milliseconds: the same unit, two ticks
\* to the unit, two units to the tick, a second to the tick
MilliTimeBases == {<<1, 1000>>, <<1, 2000>>, <<1, 500>>, <<1, 1>>}

\* the same against nanoseconds
NanoTimeBases ==
    {<<1, 1000000000>>, <<1, 2000000000>>, <<1, 500000000>>, <<1, 1000000>>}

\* endpoints of the timespans that are compared
SpanEnds == {0, 1, 2, 3}

\* i64::saturating_add and i64::saturating_sub
I64Saturate(x) == IF x > I64_MAX THEN I64_MAX ELSE IF x < I64_MIN THEN I64_MIN ELSE x

\* saturating_sub without the floor at 0
saturating_sub_i64(ts, d) == I64Saturate(ts - d)

\* Timestamp::saturating_add
saturating_add(ts, d) == Max2(I64Saturate(ts + d), 0)

\* Timestamp::saturating_sub
saturating_sub(ts, d) == Max2(I64Saturate(ts - d), 0)

RECURSIVE Gcd(_, _)
Gcd(x, y) == IF y = 0 THEN x ELSE Gcd(y, x % y)

\* Rescale::rescale with the ratio of the two time bases in lowest terms,
\* which gives the same quotient and keeps a * b small
RescaleQ(a, bq, cq) ==
    LET g == Gcd(bq[1] * cq[2], cq[1] * bq[2])
        b == (bq[1] * cq[2]) \div g
        c == (cq[1] * bq[2]) \div g
    IN  IF a < 0
        THEN LET r == RescaleNonNeg(0 - Max2(a, 0 - I64_MAX), b, c)
             IN  IF r = I64_MIN THEN I64_MIN ELSE 0 - r
        ELSE RescaleNonNeg(a, b, c)

\* a negative rescale result becomes Timestamp(0), an unrepresentable one
\* Timestamp::MAX
from_timebase_clamped(ts, time_base) ==
    LET r == RescaleQ(ts, time_base, UtilTimestampTimebase)
    IN  IF r = I64_MIN /\ ts > 0 THEN [ok |-> TRUE, ts |-> I64_MAX]
        ELSE [ok |-> TRUE, ts |-> Max2(r, 0)]

\* Timestamp::from_timebase of util.rs
from_timebase(ts, time_base) ==
    LET r == RescaleQ(ts, time_base, UtilTimestampTimebase)
    IN  IF r < 0 THEN [ok |-> FALSE, err |-> "Timestamp is negative"]
        ELSE [ok |-> TRUE, ts |-> r]

TimeInit ==
    /\ tOp = "idle"
    /\ tArgs = <<>>
    /\ tRes = <<>>
    /\ TimeRestIdle

SaturatingAdd(ts, d) ==
    /\ tOp = "idle"
    /\ tOp' = "saturating_add"
    /\ tArgs' = <<ts, d>>
    /\ tRes' = saturating_add(ts, d)
    /\ UNCHANGED TimeRest

SaturatingSub(ts, d) ==
    /\ tOp = "idle"
    /\ tOp' = "saturating_sub"
    /\ tArgs' = <<ts, d>>
    /\ tRes' = saturating_sub(ts, d)
    /\ UNCHANGED TimeRest

FromLibavTs(ts, time_base) ==
    /\ tOp = "idle"
    /\ tOp' = "from_libav_ts"
    /\ tArgs' = <<ts, time_base>>
    /\ tRes' = from_libav_ts(ts, time_base)
    /\ UNCHANGED TimeRest

FromTimebase(ts, time_base) ==
    /\ tOp = "idle"
    /\ tOp' = "from_timebase"
    /\ tArgs' = <<ts, time_base>>
    /\ tRes' = from_timebase(ts, time_base)
    /\ UNCHANGED TimeRest

\* two timespans made by Timespan::new, compared both ways and with
\* themselves
TimespanOverlaps(a1, a2, b1, b2) ==
    /\ tOp = "idle"
    /\ tOp' = "overlaps"
    /\ LET a == TimespanNew(a1, a2)
           b == TimespanNew(b1, b2)
       IN  /\ tArgs' = <<a, b>>
           /\ tRes' = [ab |-> Overlaps(a, b), ba |-> Overlaps(b, a),
                       aa |-> Overlaps(a, a), bb |-> Overlaps(b, b)]
    /\ UNCHANGED TimeRest

TimeNext ==
    \/ \E ts \in TimestampSamples, d \in DurationSamples : SaturatingAdd(ts, d)
    \/ \E ts \in TimestampSamples, d \in DurationSamples : SaturatingSub(ts, d)
    \/ \E ts \in TickSamples, tb \in MilliTimeBases : FromLibavTs(ts, tb)
    \/ \E ts \in TickSamples, tb \in NanoTimeBases : FromTimebase(ts, tb)
    \/ \E a1 \in SpanEnds, a2 \in SpanEnds, b1 \in SpanEnds, b2 \in SpanEnds :
          TimespanOverlaps(a1, a2, b1, b2)

SpecTime == TimeInit /\ [][TimeNext]_vars

(***************************************************************************)
(* Claims about the time arithmetic                                        *)
(***************************************************************************)
\* the two spans have a point in common
SharePoint(a, b) ==
    \E t \in SpanEnds : a.start <= t /\ t <= a.end /\ b.start <= t /\ t <= b.end

\* C14: for all timespans a and b, a.overlaps(b) = b.overlaps(a),
\* a.overlaps(a) is true, and a.overlaps(b) holds exactly when neither
\* span ends before the other starts, that is when they share a point: two
\* spans that only touch at an endpoint overlap.
C14_OverlapsSymmetricReflexive ==
    tOp = "overlaps" =>
        LET a == tArgs[1]
            b == tArgs[2]
        IN  /\ tRes.ab = tRes.ba
            /\ tRes.aa
            /\ tRes.bb
            /\ tRes.ab <=> ~(a.end < b.start \/ b.end < a.start)
            /\ tRes.ab <=> SharePoint(a, b)
            /\ (a.end = b.start \/ b.end = a.start) => tRes.ab

\* two spans of positive length that only touch were compared
C14_Witness ==
    /\ tOp = "overlaps"
    /\ tArgs[1].start < tArgs[1].end
    /\ tArgs[1].end = tArgs[2].start
    /\ tArgs[2].start < tArgs[2].end
    /\ tRes.ab
    /\ tRes.ba

Clamp(x, lo, hi) == IF x < lo THEN lo ELSE IF x > hi THEN hi ELSE x

\* C15: for every Timestamp t in [0, MAX] and every signed Duration d,
\* saturating_add(t, d) = clamp(t + d, 0, MAX) and saturating_sub(t, d) =
\* clamp(t - d, 0, MAX); the result is never below Timestamp::MIN, and for
\* d >= 0, saturating_sub(t, d) <= t <= saturating_add(t, d).
C15_SaturatingIsClamp ==
    /\ tOp = "saturating_add" =>
          /\ tRes = Clamp(tArgs[1] + tArgs[2], TimestampMIN, TimestampMAX)
          /\ tRes >= TimestampMIN
          /\ tArgs[2] >= 0 => tArgs[1] <= tRes
    /\ tOp = "saturating_sub" =>
          /\ tRes = Clamp(tArgs[1] - tArgs[2], TimestampMIN, TimestampMAX)
          /\ tRes >= TimestampMIN
          /\ tArgs[2] >= 0 => tRes <= tArgs[1]

\* a subtraction that would go below zero gave Timestamp::MIN
C15_Witness ==
    /\ tOp = "saturating_sub"
    /\ tArgs[1] - tArgs[2] < 0
    /\ tArgs[1] > 0
    /\ tRes = TimestampMIN

\* n / c rounded to the nearest integer, halves away from zero (c > 0)
RoundDiv(n, c) ==
    IF n >= 0 THEN (2 * n + c) \div (2 * c) ELSE 0 - ((c - 2 * n) \div (2 * c))

\* the tick in the target unit, as an integer of any size
ExactRescale(a, bq, cq) ==
    LET g == Gcd(bq[1] * cq[2], cq[1] * bq[2])
    IN  RoundDiv(a * ((bq[1] * cq[2]) \div g), (cq[1] * bq[2]) \div g)

\* C16: from_libav_ts and from_timebase return an error whenever the
\* rescaled tick is negative or not representable, and otherwise return
\* exactly the rescaled value, never a clamped one.
C16_RescaleErrorNeverClamp ==
    tOp \in {"from_libav_ts", "from_timebase"} =>
        LET x == ExactRescale(tArgs[1], tArgs[2],
                     IF tOp = "from_libav_ts" THEN TimestampTimebase
                     ELSE UtilTimestampTimebase)
        IN  IF x < 0 \/ x > I64_MAX THEN ~tRes.ok
            ELSE tRes.ok /\ tRes.ts = x

\* from_timebase failed on a positive tick whose rescaled value does not
\* fit
C16_Witness ==
    /\ tOp = "from_timebase"
    /\ tArgs[1] > 0
    /\ ~tRes.ok

(***************************************************************************)
(* Claims about the timestamps of the timeline builder                     *)
(***************************************************************************)
\* C17: when the builder derives an end as start + duration and the sum
\* does not fit a Timestamp, the event is dropped with an error: the
\* program does not abort, and no entry has an end that wrapped around,
\* that is an end below Timestamp::MIN.
C17_EndOverflowDropsEvent ==
    /\ bStatus # "panic"
    /\ \A i \in 1..Len(subs) :
          subs[i].end # None => Unwrap(subs[i].end) >= TimestampMIN

\* C18: Timespan::new(a, b) has start = min(a, b) and end = max(a, b) for
\* every pair of timestamps, so start <= end in every Timespan the builder
\* yields; an entry whose end was resolved by an event that starts before
\* the entry's own start yields the span with the two endpoints swapped.
C18_TimespanOrdered ==
    /\ \A a \in TimestampSamples, b \in TimestampSamples :
          /\ TimespanNew(a, b).start = (IF a <= b THEN a ELSE b)
          /\ TimespanNew(a, b).end = (IF a <= b THEN b ELSE a)
    /\ \A k \in 1..Len(out) : out[k].timespan.start <= out[k].timespan.end
    /\ bStatus = "done" =>
          \A i \in ResolvedEntries :
             \A j \in 1..Len(subs[i].rects) :
                \E k \in 1..Len(out) :
                   /\ out[k].diag = subs[i].rects[j]
                   /\ out[k].timespan.start <= subs[i].start
                   /\ out[k].timespan.start <= Unwrap(subs[i].end)
                   /\ out[k].timespan.end >= subs[i].start
                   /\ out[k].timespan.end >= Unwrap(subs[i].end)
                   /\ {out[k].timespan.start, out[k].timespan.end}
                         = {subs[i].start, Unwrap(subs[i].end)}

\* an entry was resolved by an event that starts before it, and its
\* Subtitle has the two endpoints swapped
C18_Witness ==
    /\ bStatus = "done"
    /\ \E i \in ResolvedEntries :
          /\ Unwrap(subs[i].end) < subs[i].start
          /\ Unwrap(subs[i].end) >= TimestampMIN
          /\ \E k \in 1..Len(out) :
                /\ out[k].timespan.start = Unwrap(subs[i].end)
                /\ out[k].timespan.end = subs[i].start

(***************************************************************************)
(* Audio spans (src/src/audio.rs, generate_audio_command): the -ss / -to   *)
(* pair and the output name the command gets for every subtitle.  The      *)
(* joining of spans (--join-audio, src/src/args.rs 241-243) is not in      *)
(* audio.rs; it is taken from the specification.                           *)
(***************************************************************************)
\* subtitles of one file
MaxAudioSubs == 3

\* <<start, end>> of the subtitles: three that follow each other closely
\* and one at the end of the range
AudioSubSpans ==
    {<<100, 200>>, <<300, 400>>, <<450, 500>>, <<I64_MAX - 100, I64_MAX - 10>>}

AudioSubs == {[start |-> sp[1], end |-> sp[2]] : sp \in AudioSubSpans}

\* --pad-begin and --pad-end: Duration::from_ms(u32), never negative
AudioPaddings == {0, 50, 250}

\* Timestamp::checked_add of util.rs
checked_add(ts, d) ==
    IF InI64(ts + d) /\ ts + d >= 0 THEN Some(ts + d) ELSE None

\* Timestamp::checked_sub of util.rs
checked_sub(ts, d) ==
    IF InI64(ts - d) /\ ts - d >= 0 THEN Some(ts - d) ELSE None

\* Option::unwrap_or
UnwrapOr(o, default) == IF IsSome(o) THEN Unwrap(o) ELSE default

\* the loop body of generate_audio_command: start and end with the
\* padding, and the output name of format.sub_index = idx
AudioSpan(sub, padding, idx) ==
    [start |-> UnwrapOr(checked_sub(sub.start, padding[1]), sub.start),
     end |-> UnwrapOr(checked_add(sub.end, padding[2]), sub.end),
     name |-> idx]

\* a joined entry is tagged with its own name
JoinSpanOwnTag(spans, span) ==
    IF spans # <<>> /\ spans[Len(spans)].end > span.start
    THEN [spans |-> [spans EXCEPT ![Len(spans)] =
                        [@ EXCEPT !.start = Min2(@, span.start),
                                  !.end = Max2(@, span.end)]],
          tag |-> span.name]
    ELSE [spans |-> Append(spans, span), tag |-> span.name]

\* join adjacent: when the end of the previous span reaches past the start
\* of the new one, the previous span is extended to cover it and its name
\* is the tag; otherwise the new span is emitted under its own name
JoinSpan(spans, span) ==
    IF spans # <<>> /\ spans[Len(spans)].end > span.start
    THEN [spans |-> [spans EXCEPT ![Len(spans)] =
                        [@ EXCEPT !.start = Min2(@, span.start),
                                  !.end = Max2(@, span.end)]],
          tag |-> spans[Len(spans)].name]
    ELSE [spans |-> Append(spans, span), tag |-> span.name]

\* the batch bound of the audio jobs; audio.rs has no such number
AudioBatchBound == 128

\* a file with one subtitle more than the batch bound
AudioLongFile ==
    [i \in 1..(AudioBatchBound + 1) |-> [start |-> 100, end |-> 200]]

\* generate_audio_commands, for one file: a file without subtitles is
\* skipped, any other file gets one command that carries all its points
AudioCommands(subtitles, spans) ==
    IF subtitles = <<>> THEN <<>> ELSE <<spans>>

AudioInit ==
    /\ uSubs \in SeqsUpTo(AudioSubs, MaxAudioSubs) \cup {AudioLongFile}
    /\ uPadding \in AudioPaddings \X AudioPaddings
    /\ uJoin \in BOOLEAN
    /\ uPos = 0
    /\ uSpans = <<>>
    /\ uTags = <<>>
    /\ AudioRestIdle

\* one iteration of `for (idx, subtitle) in subs.iter().enumerate()`
AudioEntry ==
    /\ ~uJoin
    /\ uPos >= 0
    /\ uPos < Len(uSubs)
    /\ LET span == AudioSpan(uSubs[uPos + 1], uPadding, uPos)
       IN  /\ uSpans' = Append(uSpans, span)
           /\ uTags' = Append(uTags, span.name)
    /\ uPos' = uPos + 1
    /\ UNCHANGED <<uSubs, uPadding, uJoin>>
    /\ UNCHANGED AudioRest

\* the same iteration with join adjacent
AudioEntryJoin ==
    /\ uJoin
    /\ uPos >= 0
    /\ uPos < Len(uSubs)
    /\ LET r == JoinSpan(uSpans, AudioSpan(uSubs[uPos + 1], uPadding, uPos))
       IN  /\ uSpans' = r.spans
           /\ uTags' = Append(uTags, r.tag)
    /\ uPos' = uPos + 1
    /\ UNCHANGED <<uSubs, uPadding, uJoin>>
    /\ UNCHANGED AudioRest

AudioNext ==
    \/ AudioEntry
    \/ AudioEntryJoin

SpecAudio == AudioInit /\ [][AudioNext]_vars

(***************************************************************************)
(* Claims about the audio spans                                            *)
(***************************************************************************)
\* C19: every entry yields exactly one (span, output name) pair, in entry
\* order, whose start is the entry's start minus the start padding and
\* whose end is the entry's end plus the end padding, both saturating: a
\* padded start below zero is 0, a padded end above MAX is MAX.
C19_PaddingSaturates ==
    (~uJoin /\ uPos >= 0) =>
        /\ Len(uSpans) = uPos
        /\ \A i \in 1..uPos :
              /\ uSpans[i].start =
                    Clamp(uSubs[i].start - uPadding[1], TimestampMIN, TimestampMAX)
              /\ uSpans[i].end =
                    Clamp(uSubs[i].end + uPadding[2], TimestampMIN, TimestampMAX)
              /\ uSpans[i].name = i - 1

\* the loop takes the next subtitle in this step
AudioStep == uPos >= 0 /\ uPos' = uPos + 1

\* the padded span of the subtitle the loop takes next
NextAudioSpan == AudioSpan(uSubs[uPos + 1], uPadding, uPos)

\* the end of the span emitted last reaches past the next padded start
PrevReachesPast ==
    uSpans # <<>> /\ uSpans[Len(uSpans)].end > NextAudioSpan.start

SpanNames(spans) == {spans[i].name : i \in 1..Len(spans)}

RECURSIVE ConcatJobs(_)
ConcatJobs(jobs) ==
    IF jobs = <<>> THEN <<>> ELSE Head(jobs) \o ConcatJobs(Tail(jobs))

\* generate_audio_command has returned
AudioCommandBuilt == uPos = Len(uSubs)

\* C21: the audio jobs of a file are built per contiguous batch of its
\* points: no job carries more points than the batch bound (128), and the
\* jobs of the file, one after the other, are exactly the file's points.
C21_JobsAreBoundedBatches ==
    (AudioCommandBuilt /\ ~uJoin) =>
        LET jobs == AudioCommands(uSubs, uSpans)
        IN  /\ \A j \in 1..Len(jobs) : Len(jobs[j]) <= AudioBatchBound
            /\ ConcatJobs(jobs) = uSpans
            /\ Len(uSpans) = Len(uSubs)

(***************************************************************************)
(* Bitmap subtitles (src/src/subtitle.rs, bitmap_to_image): one call on a  *)
(* small paletted bitmap.  The call is kept in tOp, tArgs and tRes.        *)
(***************************************************************************)
\* width, height and linesize of a bitmap
MaxBitmapDim == 2

\* `bitmap.colors() <= 256`
MaxPaletteColors == 256

\* palette sizes: two colours, six colours, one too many
PaletteSizes == {2, 6, MaxPaletteColors + 1}

\* bytes of the index plane
IndexSamples == {0, 5}

\* palette entry i as a u32: its four bytes in memory are i + 1, 2, 3, 4
PaletteEntry(i) == (i + 1) + 2 * 256 + 3 * 65536 + 4 * 16777216

\* what memory past the declared palette may hold
GarbageEntries == {0, PaletteEntry(9)}

\* AVSubtitleRect of a bitmap: data[0] is the index plane of height rows
\* of linesize bytes; data[1] is the palette, whose entry i is
\* PaletteEntry(i) for every i below nb_colors
Bitmaps ==
    UNION {
        { [colors |-> c, width |-> w, height |-> h, linesize |-> ls,
           indices |-> plane] :
              plane \in [1..(h * ls) -> IndexSamples] } :
        c \in PaletteSizes, w \in 1..MaxBitmapDim, h \in 1..MaxBitmapDim,
        ls \in 1..MaxBitmapDim }

\* linesize[0] of a decoded bitmap is at least its width
WellFormedBitmaps == {b \in Bitmaps : b.linesize >= b.width}

\* u32::to_le_bytes
to_le_bytes(v) == [k \in 1..4 |-> (v \div (256 ^ (k - 1))) % 256]

\* subtitle.rs 180-189: a = argb[0], r = argb[1], g = argb[2], b = argb[3],
\* pushed as r, g, b, a
RgbaOf(entry) ==
    LET argb == to_le_bytes(entry)
    IN  <<argb[2], argb[3], argb[4], argb[1]>>

\* length of the slices `palette` and `indices` (subtitle.rs 161-170)
SliceLen(bitmap) == bitmap.width * bitmap.height * bitmap.linesize

\* subtitle.rs 176: indices[y * linesize + x]
IndexAt(bitmap, x, y) == bitmap.indices[y * bitmap.linesize + x + 1]

\* subtitle.rs 180: palette[index] is bounds-checked against the slice
\* length, which is not the number of colours
LookupPanics(bitmap, x, y) == IndexAt(bitmap, x, y) >= SliceLen(bitmap)

\* palette[index] reads memory past the last declared colour
LookupOutside(bitmap, x, y) ==
    /\ ~LookupPanics(bitmap, x, y)
    /\ IndexAt(bitmap, x, y) >= bitmap.colors

\* the pixels in the order of the two loops, y outer and x inner
PixelCoords(bitmap) ==
    [k \in 1..(bitmap.width * bitmap.height) |->
        [x |-> (k - 1) % bitmap.width, y |-> (k - 1) \div bitmap.width]]

\* Subtitle::bitmap_to_image; garbage is what a read past the declared
\* palette returns
bitmap_to_image(bitmap, garbage) ==
    IF bitmap.colors <= MaxPaletteColors
    THEN LET coords == PixelCoords(bitmap)
         IN  IF \E k \in DOMAIN coords :
                    LookupPanics(bitmap, coords[k].x, coords[k].y)
             THEN [kind |-> "panic"]
             ELSE [kind |-> "raster",
                   width |-> bitmap.width,
                   height |-> bitmap.height,
                   outside |-> \E k \in DOMAIN coords :
                       LookupOutside(bitmap, coords[k].x, coords[k].y),
                   pixels |->
                       [k \in DOMAIN coords |->
                           LET index == IndexAt(bitmap, coords[k].x, coords[k].y)
                           IN  IF index < bitmap.colors
                               THEN RgbaOf(PaletteEntry(index))
                               ELSE RgbaOf(garbage)]]
    ELSE [kind |-> "err", msg |-> "Unsupported bitmap format"]

BitmapToImage(bitmap, garbage) ==
    /\ tOp = "idle"
    /\ tOp' = "bitmap_to_image"
    /\ tArgs' = bitmap
    /\ tRes' = bitmap_to_image(bitmap, garbage)
    /\ UNCHANGED TimeRest

BitmapNext ==
    \E bitmap \in WellFormedBitmaps, garbage \in GarbageEntries :
        BitmapToImage(bitmap, garbage)

SpecBitmap == TimeInit /\ [][BitmapNext]_vars

(***************************************************************************)
(* Claims about bitmap_to_image                                            *)
(***************************************************************************)
BitmapReturned == tOp = "bitmap_to_image"

\* C22: a palette of more than 256 entries is rejected with the
\* unsupported-format error; otherwise the result is a raster of exactly
\* width x height pixels, and pixel (x, y) is the palette colour selected by
\* index_plane[y * linesize + x], written [R, G, B, A] from the entry's
\* bytes 1, 2, 3 and 0.
C22_RasterIsPaletteLookup ==
    BitmapReturned =>
        IF tArgs.colors > MaxPaletteColors
        THEN tRes = [kind |-> "err", msg |-> "Unsupported bitmap format"]
        ELSE /\ tRes.kind = "raster"
             /\ tRes.width = tArgs.width
             /\ tRes.height = tArgs.height
             /\ Len(tRes.pixels) = tArgs.width * tArgs.height
             /\ \A x \in 0..(tArgs.width - 1), y \in 0..(tArgs.height - 1) :
                    LET index == tArgs.indices[y * tArgs.linesize + x + 1]
                        argb == to_le_bytes(PaletteEntry(index))
                    IN  /\ index < tArgs.colors
                        /\ tRes.pixels[y * tArgs.width + x + 1] =
                               <<argb[2], argb[3], argb[4], argb[1]>>

\* C23: for every bitmap with a palette of at most 256 entries the
\* rasterization returns a raster or an error value: no lookup aborts the
\* program and no read goes outside the declared palette.
C23_RasterizationIsTotal ==
    (BitmapReturned /\ tArgs.colors <= MaxPaletteColors) =>
        /\ tRes.kind \in {"raster", "err"}
        /\ tRes.kind = "raster" => ~tRes.outside

(***************************************************************************)
(* Stream selection (src/src/util.rs, get_stream): one call on the streams *)
(* of a file.  The call is kept in tOp, tArgs and tRes.                    *)
(***************************************************************************)
\* streams of a file
MaxStreams == 3

\* media::Type of a stream, by its Name::name
MediaTypes == {"video", "audio", "subtitle"}

\* ictx.streams(): the media type of every stream, in index order
StreamLists == SeqsUpTo(MediaTypes, MaxStreams)

\* --sub-stream / --audio-stream: no index, or an index
StreamIndexes == {None} \cup {Some(i) : i \in 0..MaxStreams}

\* StreamIter::best(medium) of the libav binding: a stream of the medium
\* when the file has one, which one is the library's choice
BestStreams(streams, medium) ==
    IF \E i \in 1..Len(streams) : streams[i] = medium
    THEN {Some(i - 1) : i \in {j \in 1..Len(streams) : streams[j] = medium}}
    ELSE {None}

\* the three messages of get_stream, word by word
ErrNotA(stream_idx, medium, actual) ==
    <<"Stream at index", stream_idx, "is not a", medium, "stream (is",
      actual, "stream)">>
ErrNoIndex(stream_idx) == <<"File does not have a", stream_idx, "streams">>
ErrNoStream(medium) == <<"File does not have a", medium, "stream">>

\* an index without a stream is reported with the message of a file
\* without a stream of the medium
get_stream_one_message(streams, medium, stream_idx, best) ==
    IF IsSome(stream_idx)
    THEN LET idx == Unwrap(stream_idx)
         IN  IF idx < Len(streams)
             THEN IF streams[idx + 1] = medium
                  THEN [ok |-> TRUE, index |-> idx]
                  ELSE [ok |-> FALSE,
                        err |-> ErrNotA(idx, medium, streams[idx + 1])]
             ELSE [ok |-> FALSE, err |-> ErrNoStream(medium)]
    ELSE IF IsSome(best)
         THEN [ok |-> TRUE, index |-> Unwrap(best)]
         ELSE [ok |-> FALSE, err |-> ErrNoStream(medium)]

\* get_stream of util.rs; best is what streams.best(medium) returns
get_stream(streams, medium, stream_idx, best) ==
    IF IsSome(stream_idx)
    THEN LET idx == Unwrap(stream_idx)
         IN  IF idx < Len(streams)
             THEN IF streams[idx + 1] = medium
                  THEN [ok |-> TRUE, index |-> idx]
                  ELSE [ok |-> FALSE,
                        err |-> ErrNotA(idx, medium, streams[idx + 1])]
             ELSE [ok |-> FALSE, err |-> ErrNoIndex(idx)]
    ELSE IF IsSome(best)
         THEN [ok |-> TRUE, index |-> Unwrap(best)]
         ELSE [ok |-> FALSE, err |-> ErrNoStream(medium)]

GetStream(streams, medium, stream_idx, best) ==
    /\ tOp = "idle"
    /\ tOp' = "get_stream"
    /\ tArgs' = [streams |-> streams, medium |-> medium, stream_idx |-> stream_idx]
    /\ tRes' = get_stream(streams, medium, stream_idx, best)
    /\ UNCHANGED TimeRest

StreamNext ==
    \E streams \in StreamLists, medium \in MediaTypes, stream_idx \in StreamIndexes :
        \E best \in BestStreams(streams, medium) :
            GetStream(streams, medium, stream_idx, best)

SpecStream == TimeInit /\ [][StreamNext]_vars

(***************************************************************************)
(* Claims about get_stream                                                 *)
(***************************************************************************)
\* what the text of an error message alone tells about the failure
MessageClass(err) ==
    IF Len(err) = 7 THEN "wrong kind"
    ELSE IF err[3] = "streams" THEN "no such stream index"
    ELSE "no stream of this kind"

\* the failure the arguments call for, "none" when there is a stream to
\* return
ExpectedClass(streams, medium, stream_idx) ==
    IF IsSome(stream_idx)
    THEN IF Unwrap(stream_idx) >= Len(streams) THEN "no such stream index"
         ELSE IF streams[Unwrap(stream_idx) + 1] # medium THEN "wrong kind"
         ELSE "none"
    ELSE IF \A i \in 1..Len(streams) : streams[i] # medium
         THEN "no stream of this kind"
         ELSE "none"

\* C26: get_stream returns three distinguishable errors: an explicit index
\* with no stream at that index, an explicit index whose stream has another
\* media kind, and no index with no stream of the requested kind.  In every
\* other case it returns a stream of the requested kind, and with an
\* explicit index that stream is the one at that index.
C26_ThreeDistinctErrors ==
    tOp = "get_stream" =>
        LET expected == ExpectedClass(tArgs.streams, tArgs.medium, tArgs.stream_idx)
        IN  IF expected = "none"
            THEN /\ tRes.ok
                 /\ tRes.index < Len(tArgs.streams)
                 /\ tArgs.streams[tRes.index + 1] = tArgs.medium
                 /\ IsSome(tArgs.stream_idx) => tRes.index = Unwrap(tArgs.stream_idx)
            ELSE /\ ~tRes.ok
                 /\ MessageClass(tRes.err) = expected

\* index 2 was asked of a file with two streams
C26_Witness ==
    /\ tOp = "get_stream"
    /\ tArgs.streams = <<"video", "subtitle">>
    /\ tArgs.medium = "subtitle"
    /\ tArgs.stream_idx = Some(2)
    /\ ~tRes.ok
    /\ tRes.err = ErrNoIndex(2)

(***************************************************************************)
(* Claims about the run of main: empty input, --print-command, --no-media, *)
(* failed image writes                                                     *)
(***************************************************************************)
\* ffmpeg commands that were started
CommandsStarted == jCmd.running + jCmd.ok + jCmd.nonzero + jCmd.nospawn

\* video-sampling jobs that were started
ImageJobsStarted == jProd.running + jProd.sending + jProd.ok + jProd.err

\* main has returned Ok(()) after generate_package and write_to_file
PackageWritten == jPc = "exited" /\ jExit = Some(0) /\ ~jArgs.no_deck

\* C27: a run in which decoding yields zero usable subtitles ends in a
\* fatal error, and neither an export job is run nor a package written.
\* (The other fatal error of the claim, for subtitles that were decoded but
\* all filtered out, needs a filter pipeline; main.rs has none.)
C27_ZeroSubtitlesIsFatal ==
    (jFiles > 0 /\ jSubs = 0) =>
        /\ CommandsStarted = 0
        /\ ImageJobsStarted = 0
        /\ ~PackageWritten
        /\ jPc = "exited" => jExit = Some(1)

\* main left through the exit of --print-command, not through a failure of
\* generate_audio_commands
PrintedAndExited ==
    /\ jArgs.print_command
    /\ jPc = "exited"
    /\ jArgs.gen_audio => (jFiles > 0 /\ jCmd.pending = jFiles)

\* C28: in the print-planned-jobs mode the run prints the jobs and exits
\* with code 0, having executed none of them: no external process is
\* started and no image or media file is written.
C28_PrintModeRunsNothing ==
    jArgs.print_command =>
        /\ CommandsStarted = 0
        /\ ImageJobsStarted = 0
        /\ jWritten = 0
        /\ PrintedAndExited => jExit = Some(0)

\* C29: with --no-media no media file asked for with -a or -i is written:
\* no audio-extraction process is run and no image is written.
C29_NoMediaWritesNoMedia ==
    jArgs.no_media =>
        /\ CommandsStarted = 0
        /\ jWritten = 0

\* C30: a write that fails for one image does not stop consumption: no
\* consumer leaves its loop on a write error, and when the scope has exited
\* every image that was sent has been taken from the channel, even when as
\* many writes failed as there are consumers.
C30_WriteFailureKeepsConsuming ==
    /\ jCons.err = 0
    /\ ScopeExited => jQueue = 0

\* ---------------------------------------------------------------------
\* File names of the exported media and of the notes that refer to them
\* (main.rs format_filename, create_notes and the image block of main;
\*  format.rs Format; audio.rs generate_audio_commands; anki.rs
\*  create_all_notes).  A name is the sequence of its characters: a digit
\*  is written as its value, any other character as -1.
\* ---------------------------------------------------------------------
MaxNameFiles == 10
MaxNameSubs == 2

\* name templates: "%f_%s" and "%s"
NameFormats == {<<"%f", "_", "%s">>, <<"%s">>}

\* the decimal digits of n
RECURSIVE Digits(_)
Digits(n) == IF n < 10 THEN <<n>> ELSE Append(Digits(n \div 10), n % 10)

\* format!("{:0width$}", n)
ZeroPad(n, width) ==
    LET d == Digits(n)
    IN  IF Len(d) >= width THEN d ELSE [i \in 1..(width - Len(d)) |-> 0] \o d

\* usize::checked_ilog10
checked_ilog10(n) == IF n = 0 THEN None ELSE Some(Len(Digits(n)) - 1)

\* str::replace of "%f" and "%s" in the template
ReplacePlaceholders(format, file, sub) ==
    Flatten([i \in 1..Len(format) |->
                IF format[i] = "%f" THEN file
                ELSE IF format[i] = "%s" THEN sub
                ELSE <<-1>>])

\* format_filename of main.rs
format_filename(format, values) ==
    LET file_width == UnwrapOr(checked_ilog10(values.file_count), 1) + 1
        sub_width == UnwrapOr(checked_ilog10(values.sub_count), 1) + 1
    IN  ReplacePlaceholders(format,
                            ZeroPad(values.file_idx, file_width),
                            ZeroPad(values.sub_idx, sub_width))

\* Format::count_to_width
count_to_width(count) ==
    IF checked_ilog10(count) = None
    THEN [ok |-> FALSE, err |-> "zero width"]
    ELSE [ok |-> TRUE, width |-> Unwrap(checked_ilog10(count)) + 1]

\* Format::new
FormatNew(sub_count, file_count, format) ==
    LET sw == count_to_width(sub_count)
        fw == count_to_width(file_count)
    IN  IF ~sw.ok \/ ~fw.ok
        THEN [ok |-> FALSE, err |-> "zero width"]
        ELSE [ok |-> TRUE, sub_index |-> 0, sub_width |-> sw.width,
              file_index |-> 0, file_width |-> fw.width, format |-> format]

\* impl Display for Format (no "%r" in the templates)
FormatToString(f) ==
    ReplacePlaceholders(f.format,
                        ZeroPad(f.file_index, f.file_width),
                        ZeroPad(f.sub_index, f.sub_width))

\* generate_audio_commands of audio.rs: the output names of the command of
\* each file, <<>> for a file without entries; subtitles[f] is the number
\* of entries of file f
generate_audio_commands(audio_files, subtitles, format) ==
    [f \in 1..Min2(audio_files, Len(subtitles)) |->
        IF subtitles[f] = 0 THEN <<>>
        ELSE LET fmt == FormatNew(subtitles[f], audio_files, format)
             IN  [s \in 1..subtitles[f] |->
                    FormatToString([fmt EXCEPT !.file_index = f - 1,
                                               !.sub_index = s - 1])]]

\* the image block of main: the names extract_images sends for each media
\* file when the video reaches every entry
image_names(media_files, subtitles, image_format) ==
    [f \in 1..Min2(media_files, Len(subtitles)) |->
        [s \in 1..subtitles[f] |->
            format_filename(image_format,
                            [file_idx |-> f - 1, file_count |-> media_files,
                             sub_idx |-> s - 1, sub_count |-> subtitles[f]])]]

\* create_all_notes of anki.rs: the names of each note, or the error of
\* Format::new for a file without entries
create_all_notes(files, image_format, audio_format) ==
    IF \E f \in 1..Len(files) : ~FormatNew(files[f], Len(files), image_format).ok
    THEN [ok |-> FALSE, err |-> "zero width"]
    ELSE [ok |-> TRUE,
          notes |-> [f \in 1..Len(files) |-> [s \in 1..files[f] |->
              [image |-> FormatToString(
                    [FormatNew(files[f], Len(files), image_format)
                        EXCEPT !.file_index = f - 1, !.sub_index = s - 1]),
               audio |-> FormatToString(
                    [FormatNew(files[f], Len(files), audio_format)
                        EXCEPT !.file_index = f - 1, !.sub_index = s - 1])]]]]

\* create_notes of main.rs
create_notes(subtitles, image_fmt, audio_fmt) ==
    [f \in 1..Len(subtitles) |-> [s \in 1..subtitles[f] |->
        LET values == [file_idx |-> f - 1, file_count |-> Len(subtitles),
                       sub_idx |-> s - 1, sub_count |-> subtitles[f]]
        IN  [image |-> format_filename(image_fmt, values),
             audio |-> format_filename(audio_fmt, values)]]]

\* the subtitle files are read: n files, the first with c entries and the
\* others with d, next to m media files
NamesRead(n, m, c, d, format) ==
    /\ tOp = "idle"
    /\ tOp' = "read"
    /\ tArgs' = [subs |-> [f \in 1..n |-> IF f = 1 THEN c ELSE d],
                 media_files |-> m,
                 image_format |-> format, audio_format |-> format]
    /\ tRes' = [audio |-> <<>>, images |-> <<>>,
                notes |-> <<>>, main_notes |-> <<>>]
    /\ UNCHANGED TimeRest

NamesAudio ==
    /\ tOp = "read"
    /\ tOp' = "audio"
    /\ tRes' = [tRes EXCEPT !.audio =
                    generate_audio_commands(tArgs.media_files, tArgs.subs,
                                            tArgs.audio_format)]
    /\ UNCHANGED <<tArgs, TimeRest>>

NamesImages ==
    /\ tOp = "audio"
    /\ tOp' = "images"
    /\ tRes' = [tRes EXCEPT !.images =
                    image_names(tArgs.media_files, tArgs.subs,
                                tArgs.image_format)]
    /\ UNCHANGED <<tArgs, TimeRest>>

NamesPackage ==
    /\ tOp = "images"
    /\ tOp' = "package"
    /\ tRes' = [tRes EXCEPT
                  !.notes = create_all_notes(tArgs.subs, tArgs.image_format,
                                             tArgs.audio_format),
                  !.main_notes = create_notes(tArgs.subs, tArgs.image_format,
                                              tArgs.audio_format)]
    /\ UNCHANGED <<tArgs, TimeRest>>

NamesNext ==
    \/ \E n, m \in 1..MaxNameFiles, c, d \in 0..MaxNameSubs,
          format \in NameFormats : NamesRead(n, m, c, d, format)
    \/ NamesAudio
    \/ NamesImages
    \/ NamesPackage

SpecNames == TimeInit /\ [][NamesNext]_vars

\* C39: for every file index and entry index for which a media file is
\* exported, the image and audio file name the note of the entry refers to
\* is the name the export writes, also when the number of media files
\* differs from the number of subtitle files.
C39_NoteNamesMatchExport ==
    tOp = "package" =>
        \A f \in 1..Len(tRes.audio) : \A s \in 1..tArgs.subs[f] :
            /\ tRes.main_notes[f][s].audio = tRes.audio[f][s]
            /\ tRes.main_notes[f][s].image = tRes.images[f][s]
            /\ tRes.notes.ok =>
                  /\ tRes.notes.notes[f][s].audio = tRes.audio[f][s]
                  /\ tRes.notes.notes[f][s].image = tRes.images[f][s]

====
